---- MODULE Spec2Model ----
(***************************************************************************)
(* Model of the entry protocol (GET /api/auth/entry) and of the admin     *)
(* routes that create, rotate and delete the material it reads.           *)
(*                                                                         *)
(* Strings are sequences of characters; the absent value (null/undefined) *)
(* is the sentinel NULL, a sequence that is not a string of characters.   *)
(* A table is a set of rows.  A signed token is the sequence              *)
(*   <<alg, ".", sub, cid, role, id, iat, exp, jti, ".">> \o mac          *)
(* where mac is the symbolic HMAC of the first nine elements: it can be   *)
(* recomputed only with the same algorithm, key and signing input.        *)
(* crypto.randomBytes is an ideal entropy source: the n-th draw is a      *)
(* value no other draw returns and no caller guesses.                     *)
(***************************************************************************)
EXTENDS Integers, Sequences, FiniteSets, TLC

\* ---------------------------------------------------------------- bounds
\* The number of events of a run that change the store or the clock: ledger
\* inserts, admin writes and clock ticks taken together.
MaxEvents == 2
NumRequests == 2
MaxTtl == 2
\* The longest string handed to the credential verifier on its own.
MaxKeyLen == 2

\* ------------------------------------------------------- program constants
DefaultTtl == 1209600

\* ---------------------------------------------------------------- strings
NULL == <<"NULL">>

Truthy(s) == s # NULL /\ s # <<>>

RECURSIVE TrimStart(_)
TrimStart(s) ==
  IF s # <<>> /\ Head(s) = " " THEN TrimStart(Tail(s)) ELSE s

RECURSIVE TrimEnd(_)
TrimEnd(s) ==
  IF s # <<>> /\ s[Len(s)] = " " THEN TrimEnd(SubSeq(s, 1, Len(s) - 1)) ELSE s

Trim(s) == TrimEnd(TrimStart(s))

\* Mutant: the parameter is used as it came.
normalizeStr_asGiven(s) == IF s = NULL THEN <<>> ELSE s

normalizeStr(s) == Trim(IF s = NULL THEN <<>> ELSE s)

normalizePhone(s) == normalizeStr(s)

\* Number(x) of a string of decimal digits; NaN for any other string.
NaN == -1

Digits == {"0", "1", "2", "3", "4", "5", "6", "7", "8", "9"}

DigitVal(c) == CHOOSE n \in 0..9 : ToString(n) = c

RECURSIVE DecimalVal(_)
DecimalVal(s) ==
  IF s = <<>> THEN 0 ELSE 10 * DecimalVal(SubSeq(s, 1, Len(s) - 1)) + DigitVal(s[Len(s)])

Number(s) ==
  IF s # <<>> /\ \A i \in 1..Len(s) : s[i] \in Digits THEN DecimalVal(s) ELSE NaN

\* The n-th value drawn from crypto.randomBytes, as a base64url string.
RandomString(n) == <<"r", ToString(n)>>

\* ------------------------------------------------------------------ state
VARIABLES
  companies,          \* table companies: rows [id, name, callback_url, jwt_alg, token_ttl_seconds]
  jwts,               \* table jwts: rows [company_id, jwt, is_active]
  users,              \* table users: rows [id, company_id, first_name, last_name, phone_number, role]
  verification_keys,  \* table verification_keys: rows [user_id, key_value]
  tokens,             \* table tokens (the ledger): rows [id, user_id, token]
  tokens_id_seq,      \* next value of the serial column tokens.id
  now,                \* the clock, in seconds (Date.now() / 1000)
  randomDraws,        \* number of values drawn from crypto.randomBytes so far
  adminOps,           \* number of admin requests that changed the store so far
  answered,           \* the request just answered, with its response (sequential runs)
  reqs                \* the entry requests in flight (concurrent runs)

vars == <<companies, jwts, users, verification_keys, tokens, tokens_id_seq,
          now, randomDraws, adminOps, answered, reqs>>

store == <<companies, jwts, users, verification_keys>>

\* ---------------------------------------------------------------- fixture
ALGS == {"HS256", "HS384", "HS512"}

CallbackA == <<"https:", "//", "a.example", "/cb">>
CallbackB == <<"https:", "//", "b.example", "/cb">>

InitCompanies ==
  { [id |-> 1, name |-> <<"A">>, callback_url |-> CallbackA,
     jwt_alg |-> "HS256", token_ttl_seconds |-> 1],
    [id |-> 2, name |-> <<"B">>, callback_url |-> CallbackB,
     jwt_alg |-> "HS512", token_ttl_seconds |-> 2] }

\* Users 1 and 2 of company 1 share their name pair; users 1 and 3 share
\* their phone number across companies.  User 1 has a verification key,
\* user 2 has no verification_keys row, user 3 has a row whose key_value is
\* null (KeyRow.key_value: string | null).
InitUsers ==
  { [id |-> 1, company_id |-> 1, first_name |-> <<"J">>, last_name |-> <<"D">>,
     phone_number |-> <<"7">>, role |-> "admin"],
    [id |-> 2, company_id |-> 1, first_name |-> <<"J">>, last_name |-> <<"D">>,
     phone_number |-> <<"8">>, role |-> "user"],
    [id |-> 3, company_id |-> 2, first_name |-> <<"J">>, last_name |-> <<"E">>,
     phone_number |-> <<"7">>, role |-> "user"] }

InitKeys ==
  { [user_id |-> 1, key_value |-> RandomString(0)],
    [user_id |-> 3, key_value |-> NULL] }

InitJwts ==
  { [company_id |-> 1, jwt |-> RandomString(1), is_active |-> TRUE],
    [company_id |-> 2, jwt |-> RandomString(2), is_active |-> TRUE] }

InitDraws ==
  Cardinality({k \in InitKeys : Truthy(k.key_value)}) + Cardinality(InitJwts)

Idle == [op |-> "idle"]

TypeOK ==
  /\ now \in 0..MaxEvents
  /\ randomDraws \in Nat
  /\ adminOps \in 0..MaxEvents
  /\ tokens_id_seq \in Nat
  /\ \A c \in companies : c.jwt_alg \in ALGS /\ c.token_ttl_seconds > 0

Init ==
  /\ companies = InitCompanies
  /\ jwts = InitJwts
  /\ users = InitUsers
  /\ verification_keys = InitKeys
  /\ tokens = {}
  /\ tokens_id_seq = 1
  /\ now = 0
  /\ randomDraws = InitDraws
  /\ adminOps = 0
  /\ answered = Idle
  /\ reqs = <<>>

\* ------------------------------------------------------- store read calls
\* A query result: the rows it returns, or the error the driver raises.
Rows(rs) == [threw |-> FALSE, rows |-> rs]
Threw(msg) == [threw |-> TRUE, rows |-> {}, message |-> msg]

\* Mutant: when no row has the id, the name is looked up.
getCompanyByIdOrName_nameFallback(company_id, company_name) ==
  IF Truthy(company_id) /\ Number(company_id) = NaN
    THEN Threw("invalid input syntax for type integer")
  ELSE IF Truthy(company_id) /\ \E c \in companies : c.id = Number(company_id)
    THEN Rows({c \in companies : c.id = Number(company_id)})
  ELSE IF Truthy(company_name)
    THEN Rows({c \in companies : c.name = company_name})
  ELSE Rows({})

\* Mutant: without company_id and company_name, every company is selected.
getCompanyByIdOrName_defaultCompany(company_id, company_name) ==
  IF Truthy(company_id)
    THEN IF Number(company_id) = NaN
           THEN Threw("invalid input syntax for type integer")
           ELSE Rows({c \in companies : c.id = Number(company_id)})
    ELSE IF Truthy(company_name)
           THEN Rows({c \in companies : c.name = company_name})
           ELSE Rows(companies)

\* WHERE id = Number(company_id) when company_id is given, else WHERE name =
\* company_name, else no query.  NaN is not a value of the integer column:
\* the query is rejected and the rejection propagates to the caller.
getCompanyByIdOrName(company_id, company_name) ==
  IF Truthy(company_id)
    THEN IF Number(company_id) = NaN
           THEN Threw("invalid input syntax for type integer")
           ELSE Rows({c \in companies : c.id = Number(company_id)})
    ELSE IF Truthy(company_name)
           THEN Rows({c \in companies : c.name = company_name})
           ELSE Rows({})

\* rows[0]?.jwt || null of the active rows of the company.  jwts holds at
\* most one row per company (ON CONFLICT (company_id)), so ORDER BY
\* created_at DESC LIMIT 1 selects that row.
getActiveSecret(companyId) ==
  LET rows == {j \in jwts : j.company_id = companyId /\ j.is_active}
  IN  IF rows = {} THEN NULL
      ELSE LET j == CHOOSE j \in rows : TRUE
           IN  IF Truthy(j.jwt) THEN j.jwt ELSE NULL

\* Mutant: when no row has the phone, the name pair is looked up.
findUser_nameFallback(companyId, phone, first, lastN) ==
  IF Truthy(phone) /\ \E u \in users : u.company_id = companyId /\ u.phone_number = phone
    THEN {u \in users : u.company_id = companyId /\ u.phone_number = phone}
    ELSE IF Truthy(first) /\ Truthy(lastN)
           THEN {u \in users : /\ u.company_id = companyId
                               /\ u.first_name = first
                               /\ u.last_name = lastN}
           ELSE {}

\* Mutant: the company is left out of the WHERE clause.
findUser_anyCompany(companyId, phone, first, lastN) ==
  IF Truthy(phone)
    THEN {u \in users : u.phone_number = phone}
    ELSE IF Truthy(first) /\ Truthy(lastN)
           THEN {u \in users : u.first_name = first /\ u.last_name = lastN}
           ELSE {}

\* The rows a LIMIT 1 query may return: any one of the matching rows.
findUser(companyId, phone, first, lastN) ==
  IF Truthy(phone)
    THEN {u \in users : u.company_id = companyId /\ u.phone_number = phone}
    ELSE IF Truthy(first) /\ Truthy(lastN)
           THEN {u \in users : /\ u.company_id = companyId
                               /\ u.first_name = first
                               /\ u.last_name = lastN}
           ELSE {}

getUserKey(userId) == {k \in verification_keys : k.user_id = userId}

\* ------------------------------------------------------ credential verifier
\* A call's outcome: the value it returns, or the error it raises.
Returned(v) == [threw |-> FALSE, value |-> v, message |-> ""]
Raised(msg) == [threw |-> TRUE, value |-> FALSE, message |-> msg]

\* Buffer.from(string) is the UTF-8 encoding.  A string is a tuple of code
\* points; "e9" stands for U+00E9, which encodes to the two bytes c3 a9,
\* every other code point of the model is ASCII and encodes to itself.
Utf8(c) == IF c = "e9" THEN <<"c3", "a9">> ELSE <<c>>

RECURSIVE Buffer_from(_)
Buffer_from(s) == IF s = <<>> THEN <<>> ELSE Utf8(Head(s)) \o Buffer_from(Tail(s))

\* crypto.timingSafeEqual raises a RangeError for buffers of different
\* byte lengths and otherwise compares every byte.
crypto_timingSafeEqual(aBuf, bBuf) ==
  IF Len(aBuf) # Len(bBuf)
    THEN Raised("Input buffers must have the same byte length")
    ELSE Returned(\A i \in 1..Len(aBuf) : aBuf[i] = bBuf[i])

\* Mutant: only the lengths are compared.
timingSafeEqualStr_lengthOnly(a, b) ==
  Returned(Len(Buffer_from(a)) = Len(Buffer_from(b)))

\* Mutant: the lengths and the first byte are compared.
timingSafeEqualStr_firstByte(a, b) ==
  LET aBuf == Buffer_from(a)
      bBuf == Buffer_from(b)
  IN  IF Len(aBuf) # Len(bBuf) THEN Returned(FALSE)
      ELSE Returned(\A i \in 1..Len(aBuf) : i = 1 => aBuf[i] = bBuf[i])

\* Mutant: the buffers are compared without the length test.
timingSafeEqualStr_noLengthTest(a, b) ==
  crypto_timingSafeEqual(Buffer_from(a), Buffer_from(b))

timingSafeEqualStr(a, b) ==
  LET aBuf == Buffer_from(a)
      bBuf == Buffer_from(b)
  IN  IF Len(aBuf) # Len(bBuf) THEN Returned(FALSE)
      ELSE crypto_timingSafeEqual(aBuf, bBuf)

\* Mutant: a user without a key row passes.
verifyPersonalKey_noRowPasses(provided, keyRow) ==
  IF keyRow = {} THEN Returned(TRUE)
  ELSE LET row == CHOOSE k \in keyRow : TRUE
       IN  IF Truthy(row.key_value)
             THEN timingSafeEqualStr(provided, row.key_value)
             ELSE Returned(FALSE)

\* keyRow is the set of rows getUserKey returned (empty: no row).
verifyPersonalKey(provided, keyRow) ==
  IF keyRow = {} THEN Returned(FALSE)
  ELSE LET row == CHOOSE k \in keyRow : TRUE
       IN  IF Truthy(row.key_value)
             THEN timingSafeEqualStr(provided, row.key_value)
             ELSE Returned(FALSE)

\* ------------------------------------------------------------ token issuer
\* HMAC of the signing input under (alg, key).
Hmac(alg, key, input) == <<alg>> \o key \o <<"|">> \o input

\* jwt.sign(payload, secret, {algorithm}): header, payload, signature.
jwt_sign(payload, secret, algorithm) ==
  LET input == <<algorithm, ".">> \o payload
  IN  input \o <<".">> \o Hmac(algorithm, secret, input)

PayloadLen == 7

\* The numbers a token of the model can carry as iat or exp.
ClaimNumbers == 0..(MaxEvents + MaxTtl) \cup {DefaultTtl + t : t \in 0..MaxEvents}

IsNumeric(s) == \E n \in ClaimNumbers : ToString(n) = s

ParseNumber(s) == CHOOSE n \in ClaimNumbers : ToString(n) = s

\* Mutant: the algorithm of the header is not checked against algorithms.
jwt_verify_anyAlg(token, secret, algorithms, clock) ==
  LET n == PayloadLen + 2
  IN  /\ Len(token) > n + 1
      /\ token[2] = "."
      /\ token[n + 1] = "."
      /\ SubSeq(token, n + 2, Len(token)) = Hmac(token[1], secret, SubSeq(token, 1, n))
      /\ IsNumeric(token[n - 1])
      /\ clock < ParseNumber(token[n - 1])

\* jwt.verify(token, secret, {algorithms}) returns normally (TRUE) or
\* throws (FALSE): malformed, algorithm not allowed, signature mismatch,
\* exp not a number, or expired (clock >= exp).
jwt_verify(token, secret, algorithms, clock) ==
  LET n == PayloadLen + 2
  IN  /\ Len(token) > n + 1
      /\ token[2] = "."
      /\ token[n + 1] = "."
      /\ token[1] \in algorithms
      /\ SubSeq(token, n + 2, Len(token)) = Hmac(token[1], secret, SubSeq(token, 1, n))
      /\ IsNumeric(token[n - 1])
      /\ clock < ParseNumber(token[n - 1])

\* Mutant: every token is signed with HS256.
issueJwt_fixedAlg(user, company, secret, nowSec, draw) ==
  LET exp == nowSec + (IF company.token_ttl_seconds = 0
                         THEN DefaultTtl ELSE company.token_ttl_seconds)
      payload == << ToString(user.id),
                    ToString(company.id),
                    user.role,
                    IF user.role = "admin" THEN "admin" ELSE ToString(user.id),
                    ToString(nowSec),
                    ToString(exp),
                    ToString(draw) >>
  IN  jwt_sign(payload, secret, "HS256")

\* Mutant: the jti is not drawn at random.
issueJwt_fixedJti(user, company, secret, nowSec, draw) ==
  LET exp == nowSec + (IF company.token_ttl_seconds = 0
                         THEN DefaultTtl ELSE company.token_ttl_seconds)
      payload == << ToString(user.id),
                    ToString(company.id),
                    user.role,
                    IF user.role = "admin" THEN "admin" ELSE ToString(user.id),
                    ToString(nowSec),
                    ToString(exp),
                    "0" >>
      algorithm == IF company.jwt_alg = "" THEN "HS256" ELSE company.jwt_alg
  IN  jwt_sign(payload, secret, algorithm)

\* Mutant: the id claim is the numeric id for every role.
issueJwt_idAlwaysNumeric(user, company, secret, nowSec, draw) ==
  LET exp == nowSec + (IF company.token_ttl_seconds = 0
                         THEN DefaultTtl ELSE company.token_ttl_seconds)
      payload == << ToString(user.id), ToString(company.id), user.role,
                    ToString(user.id), ToString(nowSec), ToString(exp),
                    ToString(draw) >>
      algorithm == IF company.jwt_alg = "" THEN "HS256" ELSE company.jwt_alg
  IN  jwt_sign(payload, secret, algorithm)

\* Mutant: the ttl of the company is used as it is.
issueJwt_noDefault(user, company, secret, nowSec, draw) ==
  LET exp == nowSec + company.token_ttl_seconds
      payload == << ToString(user.id), ToString(company.id), user.role,
                    IF user.role = "admin" THEN "admin" ELSE ToString(user.id),
                    ToString(nowSec), ToString(exp), ToString(draw) >>
      algorithm == IF company.jwt_alg = "" THEN "HS256" ELSE company.jwt_alg
  IN  jwt_sign(payload, secret, algorithm)

\* issueJwt(user, company, secret) at clock second nowSec with the random
\* bytes of draw number draw.
issueJwt(user, company, secret, nowSec, draw) ==
  LET exp == nowSec + (IF company.token_ttl_seconds = 0
                         THEN DefaultTtl ELSE company.token_ttl_seconds)
      jti == ToString(draw)
      payload == << ToString(user.id),
                    ToString(company.id),
                    user.role,
                    IF user.role = "admin" THEN "admin" ELSE ToString(user.id),
                    ToString(nowSec),
                    ToString(exp),
                    jti >>
      algorithm == IF company.jwt_alg = "" THEN "HS256" ELSE company.jwt_alg
  IN  jwt_sign(payload, secret, algorithm)

\* The claims of a token of the model.
TokenAlg(t) == t[1]
TokenSub(t) == t[3]
TokenCid(t) == t[4]
TokenIat(t) == ParseNumber(t[7])
TokenExp(t) == ParseNumber(t[8])
TokenRole(t) == t[5]
TokenId(t) == t[6]

buildRedirect(urlBase, token) == [url |-> urlBase, token |-> token]

jsonError(msg, status) ==
  [kind |-> "error", status |-> status, error |-> msg,
   url |-> NULL, token |-> NULL]

redirect(to) ==
  [kind |-> "redirect", status |-> 307, error |-> "",
   url |-> to.url, token |-> to.token]

\* ------------------------------------------------- entry protocol: GET
\* The handler runs between store round-trips.  A request in flight is the
\* record of the handler's local variables, pc naming the store call it is
\* waiting for, and resp its response once pc = "done".
NoResp == [kind |-> "none", status |-> 0, error |-> "", url |-> NULL, token |-> NULL]

Done(r, response) == [r EXCEPT !.pc = "done", !.resp = response]

\* Mutant: a caught failure is answered as a bad request.
Caught_badRequest(r, result) == Done(r, jsonError(result.message, 400))

\* catch (e) { return jsonError(e.message, 500) }
Caught(r, result) == Done(r, jsonError(result.message, 500))

\* Lines 171-187: read and normalise the query parameters, then ask for
\* the company.
GET_begin(raw) ==
  LET providedTokenRaw == normalizeStr(raw.token)
  IN  [ raw |-> raw,
        companyIdParam |-> normalizeStr(raw.company_id),
        companyNameParam |-> normalizeStr(raw.company_name),
        phone |-> normalizePhone(raw.phone),
        first |-> normalizeStr(raw.first_name),
        last |-> normalizeStr(raw.last_name),
        providedKey |-> normalizeStr(raw.key),
        providedToken |-> IF Truthy(providedTokenRaw) THEN providedTokenRaw ELSE NULL,
        company |-> {}, secret |-> NULL, user |-> {}, keyRow |-> {},
        token |-> NULL, via |-> "none",
        pc |-> "company", resp |-> NoResp ]

CompanyQuery(r) ==
  getCompanyByIdOrName(IF Truthy(r.companyIdParam) THEN r.companyIdParam ELSE NULL,
                       IF Truthy(r.companyNameParam) THEN r.companyNameParam ELSE NULL)

\* Mutant: the callback_url of the company is not looked at.
GET_company_noCallbackCheck(r, result) ==
  IF result.threw THEN Caught(r, result)
  ELSE IF result.rows = {} THEN Done(r, jsonError("Company not found", 404))
  ELSE [r EXCEPT !.company = {CHOOSE c \in result.rows : TRUE}, !.pc = "secret"]

\* Lines 184-192: the company query has returned.
GET_company(r, result) ==
  IF result.threw THEN Caught(r, result)
  ELSE IF result.rows = {} THEN Done(r, jsonError("Company not found", 404))
  ELSE LET company == CHOOSE c \in result.rows : TRUE
       IN  IF ~Truthy(company.callback_url)
             THEN Done([r EXCEPT !.company = {company}],
                       jsonError("Company callback_url not set", 500))
             ELSE [r EXCEPT !.company = {company}, !.pc = "secret"]

TheCompany(r) == CHOOSE c \in r.company : TRUE
TheUser(r) == CHOOSE u \in r.user : TRUE

\* Mutant: a missing secret is not noticed.
GET_secret_noSecretCheck(r, secret, clock) ==
  LET company == TheCompany(r)
      r1 == [r EXCEPT !.secret = secret]
  IN  IF /\ r.providedToken # NULL
         /\ jwt_verify(r.providedToken, secret, {company.jwt_alg}, clock)
        THEN Done([r1 EXCEPT !.via = "token"],
                  redirect(buildRedirect(company.callback_url, r.providedToken)))
      ELSE IF ~Truthy(r.phone) /\ ~(Truthy(r.first) /\ Truthy(r.last))
        THEN Done(r1, jsonError("Missing user identifier (phone or first_name+last_name)", 400))
      ELSE IF ~Truthy(r.providedKey)
        THEN Done(r1, jsonError("Missing personal key", 400))
      ELSE [r1 EXCEPT !.pc = "user"]

\* Mutant: a presented token is never verified.
GET_secret_noShortcut(r, secret, clock) ==
  LET r1 == [r EXCEPT !.secret = secret]
  IN  IF ~Truthy(secret)
        THEN Done(r1, jsonError("Active signing secret not found for company", 500))
      ELSE IF ~Truthy(r.phone) /\ ~(Truthy(r.first) /\ Truthy(r.last))
        THEN Done(r1, jsonError("Missing user identifier (phone or first_name+last_name)", 400))
      ELSE IF ~Truthy(r.providedKey)
        THEN Done(r1, jsonError("Missing personal key", 400))
      ELSE [r1 EXCEPT !.pc = "user"]

\* Mutant: a presented token that fails verification is answered with 401.
GET_secret_rejectBadToken(r, secret, clock) ==
  LET company == TheCompany(r)
      r1 == [r EXCEPT !.secret = secret]
  IN  IF ~Truthy(secret)
        THEN Done(r1, jsonError("Active signing secret not found for company", 500))
      ELSE IF r.providedToken # NULL
        THEN IF jwt_verify(r.providedToken, secret, {company.jwt_alg}, clock)
               THEN Done([r1 EXCEPT !.via = "token"],
                         redirect(buildRedirect(company.callback_url, r.providedToken)))
               ELSE Done(r1, jsonError("Invalid token", 401))
      ELSE IF ~Truthy(r.phone) /\ ~(Truthy(r.first) /\ Truthy(r.last))
        THEN Done(r1, jsonError("Missing user identifier (phone or first_name+last_name)", 400))
      ELSE IF ~Truthy(r.providedKey)
        THEN Done(r1, jsonError("Missing personal key", 400))
      ELSE [r1 EXCEPT !.pc = "user"]

\* Mutant: the key is asked for before the identifier.
GET_secret_keyBeforeIdentifier(r, secret, clock) ==
  LET company == TheCompany(r)
      r1 == [r EXCEPT !.secret = secret]
  IN  IF ~Truthy(secret)
        THEN Done(r1, jsonError("Active signing secret not found for company", 500))
      ELSE IF /\ r.providedToken # NULL
              /\ jwt_verify(r.providedToken, secret, {company.jwt_alg}, clock)
        THEN Done([r1 EXCEPT !.via = "token"],
                  redirect(buildRedirect(company.callback_url, r.providedToken)))
      ELSE IF ~Truthy(r.providedKey)
        THEN Done(r1, jsonError("Missing personal key", 400))
      ELSE IF ~Truthy(r.phone) /\ ~(Truthy(r.first) /\ Truthy(r.last))
        THEN Done(r1, jsonError("Missing user identifier (phone or first_name+last_name)", 400))
      ELSE [r1 EXCEPT !.pc = "user"]

\* Mutant: the token short-circuits only while the ledger still holds it.
GET_secret_ledgerChecked(r, secret, clock) ==
  LET company == TheCompany(r)
      r1 == [r EXCEPT !.secret = secret]
  IN  IF ~Truthy(secret)
        THEN Done(r1, jsonError("Active signing secret not found for company", 500))
      ELSE IF /\ r.providedToken # NULL
              /\ jwt_verify(r.providedToken, secret, {company.jwt_alg}, clock)
              /\ \E row \in tokens : row.token = r.providedToken
        THEN Done([r1 EXCEPT !.via = "token"],
                  redirect(buildRedirect(company.callback_url, r.providedToken)))
      ELSE IF ~Truthy(r.phone) /\ ~(Truthy(r.first) /\ Truthy(r.last))
        THEN Done(r1, jsonError("Missing user identifier (phone or first_name+last_name)", 400))
      ELSE IF ~Truthy(r.providedKey)
        THEN Done(r1, jsonError("Missing personal key", 400))
      ELSE [r1 EXCEPT !.pc = "user"]

\* Lines 192-225: the secret query has returned; token shortcut, then the
\* presence checks of the key path, then ask for the user.
GET_secret(r, secret, clock) ==
  LET company == TheCompany(r)
      r1 == [r EXCEPT !.secret = secret]
  IN  IF ~Truthy(secret)
        THEN Done(r1, jsonError("Active signing secret not found for company", 500))
      ELSE IF /\ r.providedToken # NULL
              /\ jwt_verify(r.providedToken, secret, {company.jwt_alg}, clock)
        THEN Done([r1 EXCEPT !.via = "token"],
                  redirect(buildRedirect(company.callback_url, r.providedToken)))
      ELSE IF ~Truthy(r.phone) /\ ~(Truthy(r.first) /\ Truthy(r.last))
        THEN Done(r1, jsonError("Missing user identifier (phone or first_name+last_name)", 400))
      ELSE IF ~Truthy(r.providedKey)
        THEN Done(r1, jsonError("Missing personal key", 400))
      ELSE [r1 EXCEPT !.pc = "user"]

UserQuery(r) ==
  findUser(TheCompany(r).id,
           IF Truthy(r.phone) THEN r.phone ELSE NULL,
           IF Truthy(r.first) THEN r.first ELSE NULL,
           IF Truthy(r.last) THEN r.last ELSE NULL)

\* Lines 220-228: the user query has returned rows[0] (userRow is the set
\* holding it, empty when no row matched).
GET_user(r, userRow) ==
  IF userRow = {} THEN Done(r, jsonError("User not found", 404))
  ELSE [r EXCEPT !.user = userRow, !.pc = "key"]

\* Mutant: the token is minted whatever the key comparison says.
GET_key_noCompare(r, keyRow, clock, draw) ==
  [r EXCEPT !.keyRow = keyRow,
            !.token = issueJwt(TheUser(r), TheCompany(r), r.secret, clock, draw),
            !.pc = "persist"]

\* Lines 228-233: the key query has returned; verify, mint, ask for the
\* ledger insert.
GET_key(r, keyRow, clock, draw) ==
  LET r1 == [r EXCEPT !.keyRow = keyRow]
      ok == verifyPersonalKey(r.providedKey, keyRow)
  IN  IF ok.threw THEN Caught(r1, ok)
      ELSE IF ~ok.value THEN Done(r1, jsonError("Invalid personal key", 401))
      ELSE [r1 EXCEPT !.token = issueJwt(TheUser(r), TheCompany(r), r.secret, clock, draw),
                      !.pc = "persist"]

\* Mutant: the ledger keeps the newest row only.
persistIssuedToken_keepLatest(userId, token) ==
  /\ tokens' = {[id |-> tokens_id_seq, user_id |-> userId, token |-> token]}
  /\ tokens_id_seq' = tokens_id_seq + 1

\* Mutant: the insert replaces the rows the user already has.
persistIssuedToken_perUser(userId, token) ==
  /\ tokens' = {row \in tokens : row.user_id # userId}
                  \cup {[id |-> tokens_id_seq, user_id |-> userId, token |-> token]}
  /\ tokens_id_seq' = tokens_id_seq + 1

\* INSERT INTO tokens (user_id, token) VALUES ($1, $2)
persistIssuedToken(userId, token) ==
  /\ tokens' = tokens \cup {[id |-> tokens_id_seq, user_id |-> userId, token |-> token]}
  /\ tokens_id_seq' = tokens_id_seq + 1

\* Lines 235-236: the insert has returned.
GET_persisted(r) ==
  Done([r EXCEPT !.via = "key"],
       redirect(buildRedirect(TheCompany(r).callback_url, r.token)))

\* The requests a whole run of the handler can end in when no other
\* request touches the store in between (pc = "done", or "persist" with
\* the insert still to be made).
GET_run(raw) ==
  LET r1 == GET_company(GET_begin(raw), CompanyQuery(GET_begin(raw)))
      r2 == IF r1.pc = "secret"
              THEN GET_secret(r1, getActiveSecret(TheCompany(r1).id), now)
              ELSE r1
  IN  IF r2.pc # "user" THEN {r2}
      ELSE IF UserQuery(r2) = {} THEN {GET_user(r2, {})}
      ELSE { GET_key(GET_user(r2, {u}), getUserKey(u.id), now, randomDraws)
               : u \in UserQuery(r2) }

\* ------------------------------------------------------ admin routes (CRUD)
\* DEFAULT of the column jwts.is_active.
IsActiveDefault == TRUE

Schemes == {"http:", "https:", "ftp:", "mailto:"}

\* new URL(s) of a string <<scheme, "//", host, path...>>.
UrlParses(s) == Len(s) >= 1 /\ s[1] \in Schemes
UrlProtocol(s) == s[1]
UrlHost(s) == IF Len(s) >= 3 /\ s[2] = "//" THEN s[3] ELSE ""

\* PATCH /api/companies/:id
isAbsoluteHttpUrl(u) ==
  IF u = NULL THEN TRUE
  ELSE LET s == Trim(u)
       IN  IF s = <<>> THEN FALSE
           ELSE /\ UrlParses(s)
                /\ UrlProtocol(s) \in {"http:", "https:"}
                /\ UrlHost(s) # ""

AdminResp(route, status) == [op |-> route, status |-> status]

\* The error text of a response of the companies routes; the 400 responses
\* name the rejected field, which is not told apart here.
CompanyError(status) ==
  IF status = 409 THEN "Company name already exists"
  ELSE IF status = 404 THEN "Company not found"
  ELSE IF status = 400 THEN "invalid field"
  ELSE ""

CompanyResp(route, status) ==
  [op |-> route, status |-> status, error |-> CompanyError(status)]

\* A PATCH body: which fields it has, and their values (name and
\* callback_url a string or NULL, jwt_alg as String(.), token_ttl_seconds
\* as Number(.)).
PatchCallback(body) == IF body.callback_url = <<>> THEN NULL ELSE body.callback_url

PatchStatus(companyId, body) ==
  IF ~body.hasName /\ ~body.hasCallback /\ ~body.hasAlg /\ ~body.hasTtl THEN 400
  ELSE IF body.hasName /\ (body.name = NULL \/ Trim(body.name) = <<>>) THEN 400
  ELSE IF body.hasName /\ Len(Trim(body.name)) > 200 THEN 400
  ELSE IF body.hasCallback /\ ~isAbsoluteHttpUrl(PatchCallback(body)) THEN 400
  ELSE IF body.hasAlg /\ body.jwt_alg \notin ALGS THEN 400
  ELSE IF body.hasTtl /\ body.token_ttl_seconds <= 0 THEN 400
  ELSE IF ~\E c \in companies : c.id = companyId THEN 404
  ELSE IF body.hasName /\ \E c \in companies : c.id # companyId /\ c.name = Trim(body.name)
    THEN 409
  ELSE 200

PatchRow(c, body) ==
  [c EXCEPT
     !.name = IF body.hasName THEN Trim(body.name) ELSE @,
     !.callback_url = IF body.hasCallback
                        THEN (IF PatchCallback(body) = NULL THEN NULL
                              ELSE Trim(PatchCallback(body)))
                        ELSE @,
     !.jwt_alg = IF body.hasAlg THEN body.jwt_alg ELSE @,
     !.token_ttl_seconds = IF body.hasTtl THEN body.token_ttl_seconds ELSE @]

NoFields ==
  [hasName |-> FALSE, name |-> NULL, hasCallback |-> FALSE, callback_url |-> NULL,
   hasAlg |-> FALSE, jwt_alg |-> "null", hasTtl |-> FALSE, token_ttl_seconds |-> 0]

PatchBodies ==
  { NoFields,
    [NoFields EXCEPT !.hasCallback = TRUE, !.callback_url = NULL],
    [NoFields EXCEPT !.hasCallback = TRUE, !.callback_url = <<"ftp:", "//", "h">>],
    [NoFields EXCEPT !.hasAlg = TRUE, !.jwt_alg = "HS384"],
    [NoFields EXCEPT !.hasAlg = TRUE, !.jwt_alg = "none"],
    [NoFields EXCEPT !.hasTtl = TRUE, !.token_ttl_seconds = MaxTtl] }

\* The rows the admin requests of the model address.
CompanyIds == {1}
UserIds == {1, 2}

IsIdle == answered.op = "idle"

Events == adminOps + Cardinality(tokens) + now

AdminReady == IsIdle /\ Events < MaxEvents

PatchCompany(companyId, body) ==
  /\ AdminReady
  /\ companies' = IF PatchStatus(companyId, body) = 200
                    THEN {IF c.id = companyId THEN PatchRow(c, body) ELSE c : c \in companies}
                    ELSE companies
  /\ answered' = CompanyResp("PATCH company", PatchStatus(companyId, body))
  /\ adminOps' = IF PatchStatus(companyId, body) = 200 THEN adminOps + 1 ELSE adminOps
  /\ UNCHANGED <<jwts, users, verification_keys, tokens, tokens_id_seq, now,
                 randomDraws, reqs>>

\* PUT /api/companies/:id/jwt with body.jwt = jwtField (NULL: not a string).
PutJwtBodies == {NULL, <<" ", "c", " ">>}

PutJwtValue(jwtField) ==
  LET provided == IF jwtField = NULL THEN NULL ELSE Trim(jwtField)
  IN  IF provided # NULL /\ Len(provided) > 0 THEN provided
      ELSE RandomString(randomDraws)

\* Mutant: the secret is inserted beside the row the company has.
PutCompanyJwt_insert(companyId, jwtField) ==
  LET newJwt == PutJwtValue(jwtField)
      drew == ~(jwtField # NULL /\ Len(Trim(jwtField)) > 0)
  IN  /\ AdminReady
      /\ randomDraws' = IF drew THEN randomDraws + 1 ELSE randomDraws
      /\ jwts' = jwts \cup {[company_id |-> companyId, jwt |-> newJwt,
                              is_active |-> IsActiveDefault]}
      /\ answered' = AdminResp("PUT jwt", 200)
      /\ adminOps' = adminOps + 1
      /\ UNCHANGED <<companies, users, verification_keys, tokens, tokens_id_seq, now, reqs>>

PutCompanyJwt(companyId, jwtField) ==
  LET newJwt == PutJwtValue(jwtField)
      drew == ~(jwtField # NULL /\ Len(Trim(jwtField)) > 0)
  IN  /\ AdminReady
      /\ randomDraws' = IF drew THEN randomDraws + 1 ELSE randomDraws
      /\ IF Len(newJwt) > 8192
           THEN /\ jwts' = jwts
                /\ answered' = AdminResp("PUT jwt", 400)
                /\ adminOps' = adminOps
           ELSE /\ jwts' = IF \E j \in jwts : j.company_id = companyId
                             THEN {IF j.company_id = companyId THEN [j EXCEPT !.jwt = newJwt]
                                   ELSE j : j \in jwts}
                             ELSE jwts \cup {[company_id |-> companyId, jwt |-> newJwt,
                                              is_active |-> IsActiveDefault]}
                /\ answered' = AdminResp("PUT jwt", 200)
                /\ adminOps' = adminOps + 1
      /\ UNCHANGED <<companies, users, verification_keys, tokens, tokens_id_seq, now, reqs>>

\* DELETE /api/companies/:id/jwt
DeleteCompanyJwt(companyId) ==
  /\ AdminReady
  /\ jwts' = {j \in jwts : j.company_id # companyId}
  /\ answered' = AdminResp("DELETE jwt", IF jwts' = jwts THEN 404 ELSE 200)
  /\ adminOps' = IF jwts' = jwts THEN adminOps ELSE adminOps + 1
  /\ UNCHANGED <<companies, users, verification_keys, tokens, tokens_id_seq, now,
                 randomDraws, reqs>>

\* Mutant: a user who has a key row keeps it (ON CONFLICT DO NOTHING).
PutUserKey_keepFirst(userId) ==
  LET newKey == RandomString(randomDraws)
  IN  /\ AdminReady
      /\ randomDraws' = randomDraws + 1
      /\ verification_keys' =
           IF \E k \in verification_keys : k.user_id = userId
             THEN verification_keys
             ELSE verification_keys \cup {[user_id |-> userId, key_value |-> newKey]}
      /\ answered' = AdminResp("PUT key", 200)
      /\ adminOps' = adminOps + 1
      /\ UNCHANGED <<companies, jwts, users, tokens, tokens_id_seq, now, reqs>>

\* PUT /api/users/:id/key: the body is not read; the key is always generated.
PutUserKey(userId) ==
  LET newKey == RandomString(randomDraws)
  IN  /\ AdminReady
      /\ randomDraws' = randomDraws + 1
      /\ verification_keys' =
           IF \E k \in verification_keys : k.user_id = userId
             THEN {IF k.user_id = userId THEN [k EXCEPT !.key_value = newKey] ELSE k
                     : k \in verification_keys}
             ELSE verification_keys \cup {[user_id |-> userId, key_value |-> newKey]}
      /\ answered' = AdminResp("PUT key", 200)
      /\ adminOps' = adminOps + 1
      /\ UNCHANGED <<companies, jwts, users, tokens, tokens_id_seq, now, reqs>>

\* DELETE /api/users/:id/key
DeleteUserKey(userId) ==
  /\ AdminReady
  /\ verification_keys' = {k \in verification_keys : k.user_id # userId}
  /\ answered' = AdminResp("DELETE key", IF verification_keys' = verification_keys THEN 404 ELSE 200)
  /\ adminOps' = IF verification_keys' = verification_keys THEN adminOps ELSE adminOps + 1
  /\ UNCHANGED <<companies, jwts, users, tokens, tokens_id_seq, now, randomDraws, reqs>>

\* ------------------------------------------------------- request inputs
\* What a caller can put in the token parameter: nothing, a string that is
\* no token, a token of the ledger, such a token after a blank, such a token
\* with its exp claim raised (signature kept), or a token the caller signed
\* with a key of its own.
AttackerKey == <<"x">>

FarFuture == ToString(MaxEvents + MaxTtl)

ExtendExp(t) == [t EXCEPT ![PayloadLen + 1] = FarFuture]

ForgedToken ==
  jwt_sign(<<"1", "1", "admin", "admin", "0", FarFuture, "f">>, AttackerKey, "HS256")

TokenParams ==
  {NULL, <<"x">>, ForgedToken}
    \cup {row.token : row \in tokens}
    \cup {<<" ">> \o row.token : row \in tokens}
    \cup {ExtendExp(row.token) : row \in tokens}

\* company_id: absent, the id of company 1, an id no company has, or a
\* string that is no number.
CompanyIdParams == {NULL, <<"1">>, <<"9">>, <<"x">>}
\* company_name: absent, the name of company 2, or a name no company has.
CompanyNameParams == {NULL, <<"B">>, <<"Z">>}
\* The name no company has comes without a company_id.
CompanyParams ==
  { p \in CompanyIdParams \X CompanyNameParams : p[2] = <<"Z">> => p[1] = NULL }
\* phone: absent, the phone of users 1 and 3, or a phone no user has.
PhoneParams == {NULL, <<"7">>, <<"5">>}
NameParams == {<<NULL, NULL>>, <<<<"J">>, <<"D">>>>, <<<<"J">>, NULL>>}
\* The identifiers of a request: the phone no user has comes with the full
\* name pair, half a name pair comes without a phone.
UserParams ==
  { w \in PhoneParams \X NameParams :
      /\ w[1] = <<"5">> => w[2] = <<<<"J">>, <<"D">>>>
      /\ w[2] = <<<<"J">>, NULL>> => w[1] = NULL }
\* What a caller can put in the key parameter: nothing, blanks, the first
\* key of user 1 (also followed by a blank), a key of the same length that
\* differs in one byte, a shorter key, or a key now stored.
KeyParams ==
  {NULL, <<" ">>, RandomString(0), RandomString(0) \o <<" ">>, <<"r", "9">>, <<"r">>}
    \cup {k.key_value : k \in verification_keys}

Params ==
  { [company_id |-> p[1], company_name |-> p[2], phone |-> w[1],
     first_name |-> w[2][1], last_name |-> w[2][2], key |-> k, token |-> t]
      : p \in CompanyParams, w \in UserParams, k \in KeyParams, t \in TokenParams }

\* ------------------------------------------------------ sequential runs
\* One entry request handled from its first line to its response with no
\* other request in between.
Entry(raw) ==
  /\ IsIdle
  /\ \E r \in GET_run(raw) :
       IF r.pc = "persist"
         THEN /\ Events < MaxEvents
              /\ persistIssuedToken(TheUser(r).id, r.token)
              /\ randomDraws' = randomDraws + 1
              /\ answered' = [op |-> "entry", r |-> GET_persisted(r)]
         ELSE /\ answered' = [op |-> "entry", r |-> r]
              /\ UNCHANGED <<tokens, tokens_id_seq, randomDraws>>
  /\ UNCHANGED <<companies, jwts, users, verification_keys, now, adminOps, reqs>>

\* The response has been sent.
Respond ==
  /\ ~IsIdle
  /\ answered' = Idle
  /\ UNCHANGED <<companies, jwts, users, verification_keys, tokens, tokens_id_seq,
                 now, randomDraws, adminOps, reqs>>

\* A second passes.
Tick ==
  /\ IsIdle
  /\ Events < MaxEvents
  /\ now' = now + 1
  /\ UNCHANGED <<companies, jwts, users, verification_keys, tokens, tokens_id_seq,
                 randomDraws, adminOps, answered, reqs>>

Next ==
  \/ IsIdle /\ \E raw \in Params : Entry(raw)
  \/ Respond
  \/ Tick
  \/ \E c \in CompanyIds, body \in PatchBodies : PatchCompany(c, body)
  \/ \E c \in CompanyIds, j \in PutJwtBodies : PutCompanyJwt(c, j)
  \/ \E c \in CompanyIds : DeleteCompanyJwt(c)
  \/ \E u \in UserIds : PutUserKey(u)
  \/ \E u \in UserIds : DeleteUserKey(u)

Spec == Init /\ [][Next]_vars

\* ------------------------------------------------------ concurrent runs
\* Entry requests in flight together: each await of the handler is a step,
\* and the steps of different requests interleave freely.
\* The store after PUT /api/users/2/key on the initial store: users 1 and 2
\* of company 1 both have a key.
InitConc ==
  /\ companies = InitCompanies
  /\ jwts = InitJwts
  /\ users = InitUsers
  /\ verification_keys = InitKeys \cup {[user_id |-> 2, key_value |-> RandomString(InitDraws)]}
  /\ tokens = {}
  /\ tokens_id_seq = 1
  /\ now = 0
  /\ randomDraws = InitDraws + 1
  /\ adminOps = 1
  /\ answered = Idle
  /\ reqs = <<>>

\* The requests of a concurrent run name user 1 by phone, or users 1 and 2
\* by the name pair they share, with the key of user 1 or of user 2, and
\* with no token or a token of the ledger.
ConcParams ==
  { [company_id |-> <<"1">>, company_name |-> NULL, phone |-> who[1],
     first_name |-> who[2], last_name |-> who[3], key |-> k, token |-> t]
      : who \in {<<<<"7">>, NULL, NULL>>, <<NULL, <<"J">>, <<"D">>>>},
        k \in {RandomString(0), RandomString(InitDraws)},
        t \in {NULL} \cup {row.token : row \in tokens} }

\* A request arrives: lines 171-181.
Arrive(raw) ==
  /\ Len(reqs) < NumRequests
  /\ reqs' = Append(reqs, GET_begin(raw))
  /\ UNCHANGED <<companies, jwts, users, verification_keys, tokens, tokens_id_seq,
                 now, randomDraws, adminOps, answered>>

\* await getCompanyByIdOrName(...) returns.
StepCompany(i) ==
  /\ reqs[i].pc = "company"
  /\ reqs' = [reqs EXCEPT ![i] = GET_company(reqs[i], CompanyQuery(reqs[i]))]
  /\ UNCHANGED <<companies, jwts, users, verification_keys, tokens, tokens_id_seq,
                 now, randomDraws, adminOps, answered>>

\* await getActiveSecret(company.id) returns.
StepSecret(i) ==
  /\ reqs[i].pc = "secret"
  /\ reqs' = [reqs EXCEPT ![i] =
                GET_secret(reqs[i], getActiveSecret(TheCompany(reqs[i]).id), now)]
  /\ UNCHANGED <<companies, jwts, users, verification_keys, tokens, tokens_id_seq,
                 now, randomDraws, adminOps, answered>>

\* await findUser(...) returns one of the matching rows, or none.
StepUser(i) ==
  /\ reqs[i].pc = "user"
  /\ \E userRow \in IF UserQuery(reqs[i]) = {} THEN {{}}
                    ELSE {{u} : u \in UserQuery(reqs[i])} :
       reqs' = [reqs EXCEPT ![i] = GET_user(reqs[i], userRow)]
  /\ UNCHANGED <<companies, jwts, users, verification_keys, tokens, tokens_id_seq,
                 now, randomDraws, adminOps, answered>>

\* await getUserKey(user.id) returns; verifyPersonalKey and issueJwt run.
StepKey(i) ==
  /\ reqs[i].pc = "key"
  /\ reqs' = [reqs EXCEPT ![i] =
                GET_key(reqs[i], getUserKey(TheUser(reqs[i]).id), now, randomDraws)]
  /\ randomDraws' = IF reqs'[i].pc = "persist" THEN randomDraws + 1 ELSE randomDraws
  /\ UNCHANGED <<companies, jwts, users, verification_keys, tokens, tokens_id_seq,
                 now, adminOps, answered>>

\* await persistIssuedToken(user.id, token) returns; the redirect is built.
StepPersist(i) ==
  /\ reqs[i].pc = "persist"
  /\ persistIssuedToken(TheUser(reqs[i]).id, reqs[i].token)
  /\ reqs' = [reqs EXCEPT ![i] = GET_persisted(reqs[i])]
  /\ UNCHANGED <<companies, jwts, users, verification_keys, now, randomDraws,
                 adminOps, answered>>

NextConc ==
  \/ \E raw \in ConcParams : Arrive(raw)
  \/ \E i \in DOMAIN reqs : StepCompany(i)
  \/ \E i \in DOMAIN reqs : StepSecret(i)
  \/ \E i \in DOMAIN reqs : StepUser(i)
  \/ \E i \in DOMAIN reqs : StepKey(i)
  \/ \E i \in DOMAIN reqs : StepPersist(i)
  \/ Tick

SpecConc == InitConc /\ [][NextConc]_vars

\* ================================================================ claims
IsEntry == answered.op = "entry"

\* The entry request just answered: the handler's locals and its response.
Req == answered.r

\* A step of Spec in which an entry request is handled.
EntryStep == IsIdle /\ answered'.op = "entry"

Redirected == IsEntry /\ Req.resp.kind = "redirect"

\* The secrets of the active jwts rows of company c.
ActiveSecrets(c) == {j.jwt : j \in {x \in jwts : x.company_id = c.id /\ x.is_active}}

\* Token t verifies now under company c's active secret and algorithm.
VerifiesFor(t, c) ==
  \E s \in ActiveSecrets(c) : jwt_verify(t, s, {c.jwt_alg}, now)

\* The key stored for user u equals k.
StoredKeyIs(u, k) ==
  \E row \in verification_keys : row.user_id = u.id /\ row.key_value = k

HasStoredKey(u) ==
  \E row \in verification_keys : row.user_id = u.id /\ Truthy(row.key_value)

\* The users of company c the identifiers of the request match.
Identified(raw, c) ==
  findUser(c.id, normalizePhone(raw.phone), normalizeStr(raw.first_name),
           normalizeStr(raw.last_name))

\* The request got past the token shortcut: its company has a callback_url
\* and a secret, and no presented token verified.
OnKeyPath(r) == Truthy(r.secret) /\ r.via # "token"

LedgerTokens == {row.token : row \in tokens}

\* What a redirect is justified by, for the token value t and key value k
\* taken from the request.
Justified(r, t, k) ==
  \E c \in r.company \cap companies :
    /\ r.resp.url = c.callback_url
    /\ \/ t # NULL /\ VerifiesFor(t, c) /\ r.resp.token = t
       \/ \E u \in r.user \cap users : u.company_id = c.id /\ StoredKeyIs(u, k)

RedirectOrError(r) ==
  \/ r.resp.kind = "redirect" /\ r.resp.token # NULL
  \/ r.resp.kind = "error" /\ r.resp.token = NULL /\ r.resp.url = NULL

\* C1 as stated: the response is a redirect carrying a token only if the
\* presented token verifies under the resolved company's active secret and
\* algorithm or the supplied key equals the stored key of a user resolved
\* inside the resolved company; otherwise it is an error without a token.
C1_AsStated ==
  IsEntry =>
    /\ RedirectOrError(Req)
    /\ Req.resp.kind = "redirect" => Justified(Req, Req.raw.token, Req.raw.key)

\* C1 (amended): the response is a redirect carrying a token only if the
\* presented token, trimmed of surrounding whitespace, verifies under the
\* resolved company's active secret and algorithm, or the supplied key,
\* trimmed of surrounding whitespace, equals the stored key of a user
\* resolved inside the resolved company; otherwise it is an error without
\* a token.
C1_RedirectOnlyIfAuthenticated ==
  IsEntry =>
    /\ RedirectOrError(Req)
    /\ Req.resp.kind = "redirect" =>
         Justified(Req,
                   IF Req.raw.token = NULL THEN NULL ELSE normalizeStr(Req.raw.token),
                   normalizeStr(Req.raw.key))

C1_Witness ==
  /\ Redirected
  /\ Req.via = "key"
  /\ Req.raw.key # normalizeStr(Req.raw.key)

\* C2: an entry step inserts exactly one ledger row (user_id, new token),
\* present when the redirect is produced, if it succeeds on the key path;
\* it leaves the ledger unchanged if it succeeds through the token
\* shortcut or ends in an error.
C2_LedgerEffect ==
  [][ EntryStep =>
        LET r == answered'.r
        IN  IF r.resp.kind = "redirect" /\ r.via = "key"
              THEN /\ Cardinality(tokens') = Cardinality(tokens) + 1
                   /\ tokens \subseteq tokens'
                   /\ \A row \in tokens' \ tokens :
                        /\ row.user_id = TheUser(r).id
                        /\ row.token = r.resp.token
                        /\ row.token \notin LedgerTokens
              ELSE tokens' = tokens ]_vars

C2_Witness ==
  /\ Redirected
  /\ Req.via = "key"
  /\ Cardinality(tokens) = 2
  /\ \A x, y \in tokens : x.user_id = y.user_id

ResolvedKeyDiffers(r, k) ==
  \E u \in r.user : \E row \in verification_keys :
    row.user_id = u.id /\ Truthy(row.key_value) /\ row.key_value # k

InvalidKeyResponse(r) ==
  r.resp.kind = "error" /\ r.resp.status = 401 /\ r.resp.error = "Invalid personal key"

\* C4 as stated: an entry step that resolves a user whose stored key
\* differs from the supplied key answers 401 "Invalid personal key" and
\* adds no ledger row.
C4_AsStated ==
  [][ (EntryStep /\ ResolvedKeyDiffers(answered'.r, answered'.r.raw.key))
        => (InvalidKeyResponse(answered'.r) /\ tokens' = tokens) ]_vars

\* C4 (amended): an entry step that resolves a user whose stored key
\* differs from the supplied key trimmed of surrounding whitespace answers
\* 401 "Invalid personal key" and adds no ledger row.
C4_WrongKeyUnauthorized ==
  [][ (EntryStep /\ ResolvedKeyDiffers(answered'.r, normalizeStr(answered'.r.raw.key)))
        => (InvalidKeyResponse(answered'.r) /\ tokens' = tokens) ]_vars

\* A wrong key of the stored key's length, differing in its last byte only.
C4_Witness ==
  /\ IsEntry
  /\ InvalidKeyResponse(Req)
  /\ \E u \in Req.user : \E row \in verification_keys :
       /\ row.user_id = u.id
       /\ Len(row.key_value) = Len(Req.providedKey)
       /\ row.key_value[1] = Req.providedKey[1]
       /\ row.key_value # Req.providedKey

\* Token t of the ledger was minted for company c and has not expired.
MintedFor(t, c) == t \in LedgerTokens /\ TokenCid(t) = ToString(c.id)

Unexpired(t) == now < TokenExp(t)

ShortcutResponse(r, c, t) ==
  /\ r.resp.kind = "redirect"
  /\ r.via = "token"
  /\ r.resp.url = c.callback_url
  /\ r.resp.token = t

\* C5 as stated: an entry step that presents an unexpired ledger token
\* minted for the company it resolves redirects to that company's
\* callback_url with the same token and leaves the ledger unchanged.
C5_AsStated ==
  [][ EntryStep =>
        \A c \in answered'.r.company :
          (MintedFor(answered'.r.raw.token, c) /\ Unexpired(answered'.r.raw.token))
            => (ShortcutResponse(answered'.r, c, answered'.r.raw.token) /\ tokens' = tokens)
    ]_vars

\* The key the mac of token t was computed with.
TokenKey(t) ==
  SubSeq(t, PayloadLen + 5, Len(t) - (PayloadLen + 2) - 1)

\* Company c is still configured as when t was signed for it: its
\* callback_url is set and its active secret and algorithm are those of t.
ConfiguredAsFor(c, t) ==
  /\ Truthy(c.callback_url)
  /\ TokenKey(t) \in ActiveSecrets(c)
  /\ TokenAlg(t) = c.jwt_alg

\* C5 (amended): an entry step that presents an unexpired ledger token
\* minted for the company it resolves, while that company has a
\* callback_url and its active secret and jwt_alg are those the token was
\* signed with, redirects to the company's callback_url with the same token
\* and leaves the ledger unchanged.
C5_RoundTrip ==
  [][ EntryStep =>
        \A c \in answered'.r.company :
          ( /\ MintedFor(answered'.r.raw.token, c)
            /\ Unexpired(answered'.r.raw.token)
            /\ ConfiguredAsFor(c, answered'.r.raw.token) )
            => (ShortcutResponse(answered'.r, c, answered'.r.raw.token) /\ tokens' = tokens)
    ]_vars

C5_Witness ==
  /\ IsEntry
  /\ \E c \in Req.company :
       /\ MintedFor(Req.raw.token, c)
       /\ Unexpired(Req.raw.token)
       /\ ShortcutResponse(Req, c, Req.raw.token)
  /\ Truthy(Req.providedKey)
  /\ Cardinality(tokens) = 1

\* The companies the parameters raw resolve to.
Resolves(raw) == CompanyQuery(GET_begin(raw)).rows

\* The token parameter of raw fails the handler's verification for every
\* company raw resolves to (none resolved: nothing to verify under).
Unverifiable(raw) ==
  \A c \in Resolves(raw) : ~VerifiesFor(normalizeStr(raw.token), c)

Absent(raw) == [raw EXCEPT !.token = NULL]

\* The responses and ledger inserts a request with parameters raw can end
\* in from the current store.
OutcomesOf(raw) ==
  { IF r.pc = "persist"
      THEN [resp |-> GET_persisted(r).resp,
            rows |-> {[id |-> tokens_id_seq, user_id |-> TheUser(r).id, token |-> r.token]}]
      ELSE [resp |-> r.resp, rows |-> {}]
    : r \in GET_run(raw) }

\* C6: from every store state and for every choice of the other
\* parameters, a request whose token parameter fails verification (expired,
\* tampered, forged, signed under another secret or algorithm, or no token at
\* all) can end in exactly the responses and ledger inserts of the same
\* request without the token parameter; and every entry step taken with
\* such a token ends in one of them.
C6_UnverifiableTokenAsAbsent ==
  /\ [](IsIdle =>
          \A raw \in Params :
            (raw.token # NULL /\ Unverifiable(raw))
              => OutcomesOf(raw) = OutcomesOf(Absent(raw)))
  /\ [][ (/\ EntryStep
          /\ answered'.r.raw.token # NULL
          /\ Unverifiable(answered'.r.raw))
           => [resp |-> answered'.r.resp, rows |-> tokens' \ tokens]
                \in OutcomesOf(Absent(answered'.r.raw)) ]_vars

\* An expired token of the ledger is presented with a wrong key: the
\* request goes on to key verification and fails there.
C6_Witness ==
  /\ IsEntry
  /\ Req.raw.token \in LedgerTokens
  /\ ~Unexpired(Req.raw.token)
  /\ \E c \in Req.company : TokenKey(Req.raw.token) \in ActiveSecrets(c)
  /\ InvalidKeyResponse(Req)

\* C7: a request takes the token shortcut only with a token whose algorithm
\* is the one now configured for the resolved company, whose signature was
\* made with that company's now active secret, and whose exp lies ahead; so
\* a ledger token with another algorithm or signed under a secret that is no
\* longer the active one never takes the shortcut.
C7_ShortcutOnlyCurrent ==
  IsEntry =>
    /\ Req.via = "token" =>
         \E c \in Req.company \cap companies :
           /\ TokenAlg(Req.resp.token) = c.jwt_alg
           /\ TokenKey(Req.resp.token) \in ActiveSecrets(c)
           /\ IsNumeric(Req.resp.token[PayloadLen + 1])
           /\ Unexpired(Req.resp.token)
    /\ \A c \in Req.company :
         ( /\ Req.providedToken \in LedgerTokens
           /\ \/ TokenAlg(Req.providedToken) # c.jwt_alg
              \/ TokenKey(Req.providedToken) \notin ActiveSecrets(c)
              \/ ~Unexpired(Req.providedToken) )
         => Req.via # "token"

\* A token issued before the company's secret was rotated is presented
\* before its expiry.
C7_Witness ==
  /\ IsEntry
  /\ adminOps > 0
  /\ Req.raw.token \in LedgerTokens
  /\ Unexpired(Req.raw.token)
  /\ \E c \in Req.company :
       /\ MintedFor(Req.raw.token, c)
       /\ ActiveSecrets(c) # {}
       /\ TokenKey(Req.raw.token) \notin ActiveSecrets(c)
  /\ Req.via # "token"
  /\ Req.resp.kind = "error"

CallbackNotSet(r) ==
  r.resp.kind = "error" /\ r.resp.status = 500
    /\ r.resp.error = "Company callback_url not set"

\* C8: an entry step that resolves a company whose callback_url is null
\* answers 500 "Company callback_url not set" and leaves every table
\* unchanged, whatever the other parameters are.
C8_NoCallbackMisconfigured ==
  [][ EntryStep =>
        \A c \in Resolves(answered'.r.raw) :
          c.callback_url = NULL
            => /\ CallbackNotSet(answered'.r)
               /\ tokens' = tokens
               /\ store' = store ]_vars

\* The company has an active secret, the token presented would verify
\* under it, and the key supplied is the stored key of the identified user.
C8_Witness ==
  /\ IsEntry
  /\ CallbackNotSet(Req)
  /\ \E c \in Req.company :
       /\ VerifiesFor(Req.raw.token, c)
       /\ \E u \in Identified(Req.raw, c) : HasStoredKey(u) /\ StoredKeyIs(u, Req.raw.key)

\* User u has no verification_keys row, or one whose key_value is null or
\* empty.
Keyless(u) == ~HasStoredKey(u)

\* The request is on the key-verification path for a keyless user: either
\* the user lookup returned a keyless user, or every user its identifiers
\* match in the resolved company is keyless.
KeylessCase(r) ==
  /\ OnKeyPath(r)
  /\ \/ r.user # {} /\ \A u \in r.user : Keyless(u)
     \/ \E c \in r.company :
          Identified(r.raw, c) # {} /\ \A u \in Identified(r.raw, c) : Keyless(u)

\* C9 as stated: on the key-verification path for a keyless user an entry
\* step ends in an error and no ledger row, and in 401 when the supplied
\* key is non-empty.
C9_AsStated ==
  [][ (EntryStep /\ KeylessCase(answered'.r))
        => /\ answered'.r.resp.kind = "error"
           /\ tokens' = tokens
           /\ Truthy(answered'.r.raw.key) => answered'.r.resp.status = 401 ]_vars

\* C9 (amended): on the key-verification path for a keyless user an entry
\* step ends in an error and no ledger row, and in 401 "Invalid personal
\* key" when the supplied key is non-empty after trimming surrounding
\* whitespace (400 "Missing personal key" otherwise).
C9_KeylessNeverAuthenticates ==
  [][ (EntryStep /\ KeylessCase(answered'.r))
        => /\ answered'.r.resp.kind = "error"
           /\ tokens' = tokens
           /\ IF Truthy(normalizeStr(answered'.r.raw.key))
                THEN InvalidKeyResponse(answered'.r)
                ELSE answered'.r.resp.status = 400 ]_vars

\* User 1's key has been deleted and the deleted key is supplied.
C9_Witness ==
  /\ IsEntry
  /\ adminOps > 0
  /\ KeylessCase(Req)
  /\ \E u \in Req.user : u.id = 1 /\ getUserKey(u.id) = {}
  /\ Req.raw.key = RandomString(0)
  /\ InvalidKeyResponse(Req)

\* Request i of a concurrent run has passed key verification: its token is
\* minted.
PassedKey(i) == reqs[i].pc \in {"persist", "done"} /\ reqs[i].token # NULL

\* C10: in every interleaving of entry requests, a request that passed key
\* verification can always make its ledger insert and, once answered, has a
\* redirect carrying its own token with a ledger row (its user, its token);
\* the ledger holds exactly one row per answered request that passed key
\* verification, and the tokens of the requests and of the rows are
\* pairwise distinct, also for one user.
C10_ConcurrentEntriesIndependent ==
  /\ \A i \in DOMAIN reqs :
       PassedKey(i) =>
         /\ reqs[i].pc = "persist" => ENABLED StepPersist(i)
         /\ reqs[i].pc = "done" =>
              /\ reqs[i].resp.kind = "redirect"
              /\ reqs[i].resp.token = reqs[i].token
              /\ Cardinality({row \in tokens : /\ row.token = reqs[i].token
                                               /\ row.user_id = TheUser(reqs[i]).id}) = 1
  /\ Cardinality(tokens) =
       Cardinality({i \in DOMAIN reqs : PassedKey(i) /\ reqs[i].pc = "done"})
  /\ \A i, j \in DOMAIN reqs :
       (PassedKey(i) /\ PassedKey(j) /\ i # j) => reqs[i].token # reqs[j].token
  /\ \A x, y \in tokens : x # y => x.token # y.token

\* Two requests for one user were in flight together: the first to arrive
\* was the second to insert, and both are redirected.
C10_Witness ==
  /\ Len(reqs) = NumRequests
  /\ \A i \in DOMAIN reqs : PassedKey(i) /\ reqs[i].pc = "done"
  /\ \E i, j \in DOMAIN reqs :
       /\ i < j
       /\ TheUser(reqs[i]).id = TheUser(reqs[j]).id
       /\ \E x, y \in tokens :
            /\ x.token = reqs[i].token
            /\ y.token = reqs[j].token
            /\ x.id > y.id

\* The responses of the admin routes of the model.
CrudOps == {"PATCH company", "PUT jwt", "DELETE jwt", "PUT key", "DELETE key"}

\* C11: an entry step leaves the tables companies, jwts, users and
\* verification_keys as they are and keeps every ledger row it finds; a step
\* that changes one of those tables is a step of a CRUD route, and a step
\* that changes the ledger is an entry step that adds rows to it.
C11_EntryOnlyAppends ==
  [][ /\ EntryStep => (store' = store /\ tokens \subseteq tokens')
      /\ store' # store => answered'.op \in CrudOps
      /\ tokens' # tokens =>
           (EntryStep /\ tokens \subseteq tokens' /\ answered'.r.via = "key") ]_vars

\* A key-path request has appended its row after PUT /api/users/:id/key
\* had replaced the key it verifies against.
C11_Witness ==
  /\ Redirected
  /\ Req.via = "key"
  /\ adminOps > 0
  /\ Cardinality(tokens) = 1
  /\ verification_keys # InitKeys
  /\ <<companies, jwts, users>> = <<InitCompanies, InitJwts, InitUsers>>

\* The request parameters as the handler reads them.
IdParam(raw) == normalizeStr(raw.company_id)
NameParam(raw) == normalizeStr(raw.company_name)

\* The company query of the request is rejected by the store.
CompanyQueryFails(raw) == Truthy(IdParam(raw)) /\ Number(IdParam(raw)) = NaN

CompanyNotFound(r) ==
  r.resp.kind = "error" /\ r.resp.status = 404 /\ r.resp.error = "Company not found"

\* C12: for every request that supplies company_id and company_name, the
\* possible outcomes are those of the same request without company_name;
\* the company it resolves has the supplied id, and when the id is a number
\* no company has, it ends in 404 "Company not found" whatever the name is.
C12_CompanyIdWins ==
  /\ IsIdle =>
       \A raw \in Params :
         (Truthy(IdParam(raw)) /\ Truthy(NameParam(raw)))
           => OutcomesOf(raw) = OutcomesOf([raw EXCEPT !.company_name = NULL])
  /\ (IsEntry /\ Truthy(IdParam(Req.raw)) /\ Truthy(NameParam(Req.raw))) =>
       /\ \A c \in Req.company : c.id = DecimalVal(IdParam(Req.raw))
       /\ ( /\ ~CompanyQueryFails(Req.raw)
            /\ ~\E c \in companies : c.id = DecimalVal(IdParam(Req.raw)) )
          => CompanyNotFound(Req)

\* No company has the id, a company has the name.
C12_Witness ==
  /\ IsEntry
  /\ Req.raw.company_id = <<"9">>
  /\ \E c \in companies : c.name = Req.raw.company_name
  /\ CompanyNotFound(Req)

\* The users of company c with phone number ph.
UsersByPhone(c, ph) == {u \in users : u.company_id = c.id /\ u.phone_number = ph}

UsersByName(c, first, lastN) ==
  {u \in users : u.company_id = c.id /\ u.first_name = first /\ u.last_name = lastN}

\* The request carries a phone and both names.
PhoneAndNames(raw) ==
  /\ Truthy(normalizePhone(raw.phone))
  /\ Truthy(normalizeStr(raw.first_name))
  /\ Truthy(normalizeStr(raw.last_name))

UserNotFound(r) ==
  r.resp.kind = "error" /\ r.resp.status = 404 /\ r.resp.error = "User not found"

\* C13: for every request that supplies phone, first_name and last_name,
\* the possible outcomes are those of the same request without the names;
\* on the key-verification path with a key, the user it resolves has the
\* supplied phone, and when no user of the company has it the request ends
\* in 404 "User not found" whatever the names are.
C13_PhoneWins ==
  /\ IsIdle =>
       \A raw \in Params :
         PhoneAndNames(raw)
           => OutcomesOf(raw) =
                OutcomesOf([raw EXCEPT !.first_name = NULL, !.last_name = NULL])
  /\ ( /\ IsEntry
       /\ PhoneAndNames(Req.raw)
       /\ OnKeyPath(Req)
       /\ Truthy(normalizeStr(Req.raw.key)) ) =>
       \A c \in Req.company :
         /\ Req.user \subseteq UsersByPhone(c, normalizePhone(Req.raw.phone))
         /\ UsersByPhone(c, normalizePhone(Req.raw.phone)) = {} => UserNotFound(Req)

\* No user of the company has the phone, a user with a key has the names
\* and the key supplied is that user's.
C13_Witness ==
  /\ IsEntry
  /\ PhoneAndNames(Req.raw)
  /\ UserNotFound(Req)
  /\ \E c \in Req.company :
       \E u \in UsersByName(c, normalizeStr(Req.raw.first_name),
                            normalizeStr(Req.raw.last_name)) :
         StoredKeyIs(u, Req.raw.key)

\* The company query of the request returns no row, or is not made.
NoCompanyMatches(raw) ==
  /\ ~CompanyQueryFails(raw)
  /\ IF Truthy(IdParam(raw))
       THEN ~\E c \in companies : c.id = DecimalVal(IdParam(raw))
       ELSE IF Truthy(NameParam(raw))
              THEN ~\E c \in companies : c.name = NameParam(raw)
              ELSE TRUE

\* C14: an entry step for which no company row matches (also when neither
\* company_id nor company_name is given) answers 404 "Company not found",
\* has read no secret, user or key, has minted nothing and leaves every
\* table unchanged, whatever the other parameters are.
C14_CompanyNotFound ==
  [][ (EntryStep /\ NoCompanyMatches(answered'.r.raw)) =>
        /\ CompanyNotFound(answered'.r)
        /\ answered'.r.company = {}
        /\ answered'.r.secret = NULL
        /\ answered'.r.user = {}
        /\ answered'.r.keyRow = {}
        /\ answered'.r.token = NULL
        /\ tokens' = tokens
        /\ store' = store ]_vars

\* Neither company_id nor company_name, with an unexpired token of the
\* ledger and the stored key of the user the phone names.
C14_Witness ==
  /\ IsEntry
  /\ CompanyNotFound(Req)
  /\ Req.raw.company_id = NULL
  /\ Req.raw.company_name = NULL
  /\ Req.raw.token \in LedgerTokens
  /\ Unexpired(Req.raw.token)
  /\ \E u \in users :
       u.phone_number = normalizePhone(Req.raw.phone) /\ StoredKeyIs(u, Req.raw.key)

SecretNotFound(r) ==
  /\ r.resp.kind = "error"
  /\ r.resp.status = 500
  /\ r.resp.error = "Active signing secret not found for company"

\* C15: an entry step that resolves a company with a callback_url and no
\* active secret answers 500 "Active signing secret not found for company"
\* and writes nothing, whatever the other parameters are; and a company
\* whose secret DELETE /api/companies/:id/jwt has removed has no active
\* secret.
C15_NoSecretMisconfigured ==
  [][ /\ EntryStep =>
           \A c \in Resolves(answered'.r.raw) :
             (Truthy(c.callback_url) /\ ActiveSecrets(c) = {})
               => /\ SecretNotFound(answered'.r)
                  /\ tokens' = tokens
                  /\ store' = store
      /\ (answered'.op = "DELETE jwt" /\ answered'.status = 200) =>
           \E id \in CompanyIds :
             /\ \E j \in jwts : j.company_id = id
             /\ ~\E j \in jwts' : j.company_id = id ]_vars

\* After the secret was deleted: a token of the ledger that is unexpired
\* and was signed for the company, and the stored key of the user named.
C15_Witness ==
  /\ IsEntry
  /\ SecretNotFound(Req)
  /\ adminOps > 0
  /\ \E c \in Req.company :
       /\ MintedFor(Req.raw.token, c)
       /\ Unexpired(Req.raw.token)
       /\ TokenAlg(Req.raw.token) = c.jwt_alg
       /\ \E u \in Identified(Req.raw, c) : StoredKeyIs(u, Req.raw.key)

\* ------------------------------------------- the credential verifier alone
\* verifyPersonalKey applied to every provided string and every key row
\* over a small alphabet: the input is drawn first, the call follows.
KeyChars == {"a", "b", "e9"}

KeyStrings == UNION { [1..n -> KeyChars] : n \in 0..MaxKeyLen }

KeyRows ==
  {{}} \cup { {[user_id |-> 1, key_value |-> v]} : v \in KeyStrings \cup {NULL} }

InitVerifier ==
  /\ companies = InitCompanies
  /\ jwts = InitJwts
  /\ users = InitUsers
  /\ verification_keys = InitKeys
  /\ tokens = {}
  /\ tokens_id_seq = 1
  /\ now = 0
  /\ randomDraws = InitDraws
  /\ adminOps = 0
  /\ reqs = <<>>
  /\ \E provided \in KeyStrings, keyRow \in KeyRows :
       answered = [op |-> "verifier input", provided |-> provided,
                   keyRow |-> keyRow, result |-> Returned(FALSE)]

Verify ==
  /\ answered.op = "verifier input"
  /\ answered' = [answered EXCEPT
                    !.op = "verifyPersonalKey",
                    !.result = verifyPersonalKey(answered.provided, answered.keyRow)]
  /\ UNCHANGED <<companies, jwts, users, verification_keys, tokens,
                 tokens_id_seq, now, randomDraws, adminOps, reqs>>

NextVerifier == Verify

SpecVerifier == InitVerifier /\ [][NextVerifier]_vars

Verified == answered.op = "verifyPersonalKey"

\* The stored value of the key row exists, is non-empty and has the bytes
\* of the provided string.
StoredEquals(provided, keyRow) ==
  \E row \in keyRow :
    /\ row.key_value # NULL
    /\ row.key_value # <<>>
    /\ Buffer_from(row.key_value) = Buffer_from(provided)

\* C16: the verifier returns true exactly when the stored value exists, is
\* non-empty and is byte-for-byte equal to the provided string; it returns
\* false for an absent row, for a null or empty stored value and for
\* different byte lengths; and it raises for no pair of inputs.
C16_VerifierContract ==
  Verified =>
    /\ ~answered.result.threw
    /\ answered.result.value <=> StoredEquals(answered.provided, answered.keyRow)
    /\ answered.keyRow = {} => ~answered.result.value
    /\ \A row \in answered.keyRow :
         /\ row.key_value \in {NULL, <<>>} => ~answered.result.value
         /\ (row.key_value # NULL
               /\ Len(Buffer_from(row.key_value)) # Len(Buffer_from(answered.provided)))
              => ~answered.result.value

\* A stored value and a provided string of different byte lengths; both
\* buffers reach the comparison only when the lengths agree.
C16_Witness ==
  /\ Verified
  /\ ~answered.result.value
  /\ \E row \in answered.keyRow :
       /\ row.key_value \notin {NULL, <<>>}
       /\ Len(row.key_value) = Len(answered.provided)
       /\ Len(Buffer_from(row.key_value)) # Len(Buffer_from(answered.provided))

\* ------------------------------------------------ runs with failing calls
\* Requests in flight whose store calls and whose signing may fail: the
\* awaited promise rejects, or jwt.sign throws, and the catch of GET runs.
\* The runtime resumes a handler whenever the call it awaits has settled.
FaultyParams ==
  { [company_id |-> id, company_name |-> NULL, phone |-> <<"7">>,
     first_name |-> NULL, last_name |-> NULL, key |-> k, token |-> t]
      : id \in {<<"1">>, <<"x">>},
        k \in {RandomString(0), RandomString(InitDraws)},
        t \in {NULL} \cup {row.token : row \in tokens} }

Awaiting == {"company", "secret", "user", "key", "persist"}

\* The store call request i awaits rejects.
StoreFails(i) ==
  /\ reqs[i].pc \in Awaiting
  /\ reqs' = [reqs EXCEPT ![i] = Caught(reqs[i], Threw("store failure"))]
  /\ UNCHANGED <<companies, jwts, users, verification_keys, tokens, tokens_id_seq,
                 now, randomDraws, adminOps, answered>>

\* The key of request i verifies and jwt.sign throws.
SignFails(i) ==
  /\ reqs[i].pc = "key"
  /\ LET keyRow == getUserKey(TheUser(reqs[i]).id)
         ok == verifyPersonalKey(reqs[i].providedKey, keyRow)
     IN  /\ ~ok.threw /\ ok.value
         /\ reqs' = [reqs EXCEPT ![i] =
                       Caught([reqs[i] EXCEPT !.keyRow = keyRow], Raised("sign failure"))]
  /\ UNCHANGED <<companies, jwts, users, verification_keys, tokens, tokens_id_seq,
                 now, randomDraws, adminOps, answered>>

\* The handler of request i runs to its next await or to its response.
Handle(i) ==
  /\ i \in DOMAIN reqs
  /\ \/ StepCompany(i)
     \/ StepSecret(i)
     \/ StepUser(i)
     \/ StepKey(i)
     \/ StepPersist(i)
     \/ StoreFails(i)
     \/ SignFails(i)

NextFaulty ==
  \/ \E raw \in FaultyParams : Arrive(raw)
  \/ \E i \in DOMAIN reqs : StepCompany(i)
  \/ \E i \in DOMAIN reqs : StepSecret(i)
  \/ \E i \in DOMAIN reqs : StepUser(i)
  \/ \E i \in DOMAIN reqs : StepKey(i)
  \/ \E i \in DOMAIN reqs : StepPersist(i)
  \/ \E i \in DOMAIN reqs : StoreFails(i)
  \/ \E i \in DOMAIN reqs : SignFails(i)

SpecFaulty ==
  /\ InitConc
  /\ [][NextFaulty]_vars
  /\ \A i \in 1..NumRequests : WF_vars(Handle(i))

ErrorStatuses == {400, 401, 404, 500}

\* The response of a request: none while it runs, then a redirect with a
\* token or a JSON error with one of the four statuses.
OneResponse(r) ==
  IF r.pc # "done" THEN r.resp = NoResp
  ELSE \/ /\ r.resp.kind = "redirect"
          /\ r.resp.token # NULL
          /\ r.resp.url # NULL
       \/ /\ r.resp.kind = "error"
          /\ r.resp.status \in ErrorStatuses
          /\ r.resp.error # ""
          /\ r.resp.token = NULL
          /\ r.resp.url = NULL

ServerError(r) ==
  r.pc = "done" /\ r.resp.kind = "error" /\ r.resp.status = 500

\* C17: every request in flight comes to a response, and to one only: a
\* redirect, or a JSON error with status 400, 401, 404 or 500, after which
\* the handler takes no step; a store call that fails, a company query
\* that the store rejects and a signing that fails end the request with
\* status 500 and the message of the failure, without a write and without
\* another attempt.
C17_OneResponse ==
  /\ [](\A i \in DOMAIN reqs : OneResponse(reqs[i]))
  /\ [][\A i \in DOMAIN reqs :
          /\ reqs[i].pc = "done" => reqs'[i] = reqs[i]
          /\ (StoreFails(i) \/ SignFails(i)) =>
               /\ ServerError(reqs'[i])
               /\ reqs'[i].resp.error \in {"store failure", "sign failure"}
               /\ tokens' = tokens
          /\ (StepCompany(i) /\ CompanyQueryFails(reqs[i].raw)) =>
               /\ ServerError(reqs'[i])
               /\ tokens' = tokens]_vars
  /\ \A i \in 1..NumRequests :
       (i \in DOMAIN reqs) ~> (i \in DOMAIN reqs /\ reqs[i].pc = "done")

\* One request ended by the failure of its ledger insert, after another
\* was redirected.
C17_Witness ==
  \E i, j \in DOMAIN reqs :
    /\ reqs[i].resp.kind = "redirect"
    /\ ServerError(reqs[j])
    /\ reqs[j].token # NULL
    /\ reqs[j].resp.error = "store failure"
    /\ Cardinality(tokens) = 1

\* The parameters of the request as the handler reads them.
TokenParam(raw) == normalizeStr(raw.token)
KeyParam(raw) == normalizeStr(raw.key)

NoIdentifier(raw) ==
  /\ ~Truthy(normalizePhone(raw.phone))
  /\ ~(Truthy(normalizeStr(raw.first_name)) /\ Truthy(normalizeStr(raw.last_name)))

MissingIdentifier(r) ==
  /\ r.resp.kind = "error"
  /\ r.resp.status = 400
  /\ r.resp.error = "Missing user identifier (phone or first_name+last_name)"

\* The company rows matching the company parameters: id first, else name.
CompaniesNamed(raw) ==
  IF Truthy(IdParam(raw))
    THEN {c \in companies : c.id = DecimalVal(IdParam(raw))}
    ELSE IF Truthy(NameParam(raw))
           THEN {c \in companies : c.name = NameParam(raw)}
           ELSE {}

\* The user rows of company c matching the identifiers: phone first.
UsersNamed(raw, c) ==
  IF Truthy(normalizePhone(raw.phone))
    THEN UsersByPhone(c, normalizePhone(raw.phone))
    ELSE UsersByName(c, normalizeStr(raw.first_name), normalizeStr(raw.last_name))

\* What a response says: its status with its message, or with the path of
\* the redirect.
Said(r) ==
  <<r.resp.status, IF r.resp.kind = "redirect" THEN r.via ELSE r.resp.error>>

\* The first check of the fixed order that applies to request r, for the
\* company row and the user row its queries returned.
FirstThatApplies(r) ==
  LET raw == r.raw
  IN  IF CompaniesNamed(raw) = {} THEN <<404, "Company not found">>
      ELSE LET c == TheCompany(r)
           IN  IF ~Truthy(c.callback_url) THEN <<500, "Company callback_url not set">>
               ELSE IF ActiveSecrets(c) = {}
                 THEN <<500, "Active signing secret not found for company">>
               ELSE IF Truthy(TokenParam(raw)) /\ VerifiesFor(TokenParam(raw), c)
                 THEN <<307, "token">>
               ELSE IF NoIdentifier(raw)
                 THEN <<400, "Missing user identifier (phone or first_name+last_name)">>
               ELSE IF ~Truthy(KeyParam(raw)) THEN <<400, "Missing personal key">>
               ELSE IF UsersNamed(raw, c) = {} THEN <<404, "User not found">>
               ELSE IF ~StoredKeyIs(TheUser(r), KeyParam(raw))
                 THEN <<401, "Invalid personal key">>
               ELSE <<307, "key">>

\* C18: the response of every entry request whose company query the store
\* answers is that of the first check that applies, in the order company
\* not found, callback_url missing, secret missing, token verifies, no
\* identifier, key empty, user not found, key invalid, issue; so a
\* verifying token is redirected with no identifier and no key, and an
\* unverifiable token with no identifier gets the 400 of the identifier.
C18_FixedCheckOrder ==
  (IsEntry /\ ~CompanyQueryFails(Req.raw)) =>
    /\ Said(Req) = FirstThatApplies(Req)
    /\ Req.company \subseteq CompaniesNamed(Req.raw)
    /\ \A c \in Req.company : Req.user \subseteq UsersNamed(Req.raw, c)
    /\ \A c \in Req.company :
         (Truthy(TokenParam(Req.raw)) /\ VerifiesFor(TokenParam(Req.raw), c)
            /\ Truthy(c.callback_url))
           => Req.resp.kind = "redirect"
    /\ \A c \in Req.company :
         (NoIdentifier(Req.raw) /\ ActiveSecrets(c) # {} /\ Truthy(c.callback_url)
            /\ ~VerifiesFor(TokenParam(Req.raw), c))
           => MissingIdentifier(Req)

\* A verifying token with no identifier and no key is redirected.
C18_Witness ==
  /\ IsEntry
  /\ Req.resp.kind = "redirect"
  /\ Req.via = "token"
  /\ NoIdentifier(Req.raw)
  /\ Req.raw.key = NULL
  /\ Req.raw.phone = NULL
  /\ Req.raw.first_name = NULL

\* The request was answered with a token minted for it.
Minted == Redirected /\ Req.via = "key"

\* C19: the user of a request answered on the key-verification path is a
\* user of the company the request resolved; the token minted has that
\* company's id as cid, that user's id as sub, and the signature of that
\* company's active secret and algorithm; every ledger token names a user
\* and that user's company; and a request is never answered with a minted
\* token on a key that only users of other companies have.
C19_CompanyIsolation ==
  /\ Minted =>
       \E c \in Req.company \cap companies, u \in Req.user \cap users :
         /\ c \in CompaniesNamed(Req.raw)
         /\ u.company_id = c.id
         /\ StoredKeyIs(u, KeyParam(Req.raw))
         /\ TokenCid(Req.resp.token) = ToString(c.id)
         /\ TokenSub(Req.resp.token) = ToString(u.id)
         /\ TokenKey(Req.resp.token) \in ActiveSecrets(c)
         /\ TokenAlg(Req.resp.token) = c.jwt_alg
  /\ \A row \in tokens :
       \E u \in users :
         /\ u.id = row.user_id
         /\ TokenSub(row.token) = ToString(u.id)
         /\ TokenCid(row.token) = ToString(u.company_id)
  /\ IsEntry =>
       \A c \in Req.company :
         (~\E u \in users : u.company_id = c.id /\ StoredKeyIs(u, KeyParam(Req.raw)))
           => ~Minted

\* Company B is resolved by name with the phone and the stored key of a
\* user of company A; B has a user with that phone, and the key is refused.
C19_Witness ==
  /\ IsEntry
  /\ InvalidKeyResponse(Req)
  /\ \E c \in Req.company, u \in users, v \in Req.user :
       /\ u.company_id # c.id
       /\ v.company_id = c.id
       /\ u.phone_number = normalizePhone(Req.raw.phone)
       /\ StoredKeyIs(u, Req.raw.key)

\* C20: in the token a request is answered with on the key-verification
\* path, and in every ledger token, role is the role of the user, id is
\* "admin" exactly when that role is "admin" and the decimal user id
\* otherwise, and sub is the decimal user id for every role.
C20_RoleAndIdClaims ==
  /\ Minted =>
       \A u \in Req.user :
         /\ TokenRole(Req.resp.token) = u.role
         /\ TokenId(Req.resp.token) = "admin" <=> u.role = "admin"
         /\ u.role # "admin" => TokenId(Req.resp.token) = ToString(u.id)
         /\ TokenSub(Req.resp.token) = ToString(u.id)
  /\ \A row \in tokens :
       \A u \in users :
         u.id = row.user_id =>
           /\ TokenRole(row.token) = u.role
           /\ TokenId(row.token) = (IF u.role = "admin" THEN "admin" ELSE ToString(u.id))
           /\ TokenSub(row.token) = ToString(u.id)

\* A token minted for a user whose role is not "admin".
C20_Witness ==
  /\ Minted
  /\ \E u \in Req.user :
       /\ u.role # "admin"
       /\ TokenRole(Req.resp.token) = u.role
       /\ TokenId(Req.resp.token) = ToString(u.id)

\* ------------------------------------------------- runs of the admin routes
\* Requests handled one after another over the whole admin surface: company
\* create and update, secret and key rotation and deletion, token and user
\* deletion, and entry requests of callers who keep the tokens they were
\* handed.
\* DEFAULTs of the columns companies.jwt_alg and companies.token_ttl_seconds.
JwtAlgDefault == "HS256"
TtlDefault == DefaultTtl

\* POST /api/companies: new URL(u) strips leading and trailing blanks.
isAbsoluteUrl(u) ==
  IF u = NULL \/ u = <<>> THEN TRUE
  ELSE LET s == Trim(u)
       IN  UrlParses(s) /\ UrlProtocol(s) # "" /\ UrlHost(s) # ""

\* What a POST body holds: has* says the field is there and not null.
PostName(body) == IF body.hasName /\ body.name # NULL THEN Trim(body.name) ELSE <<>>

PostCallback(body) == IF body.hasCallback THEN body.callback_url ELSE NULL

\* The INSERT is refused by the unique index on companies.name (23505).
\* Mutant: the insert does not fail on a name another company holds.
PostStatus_noConflict(body) ==
  IF PostName(body) = <<>> THEN 400
  ELSE IF Len(PostName(body)) > 200 THEN 400
  ELSE IF ~isAbsoluteUrl(PostCallback(body)) THEN 400
  ELSE IF body.hasAlg /\ body.jwt_alg \notin ALGS THEN 400
  ELSE IF body.hasTtl /\ body.token_ttl_seconds <= 0 THEN 400
  ELSE 201

PostStatus(body) ==
  IF PostName(body) = <<>> THEN 400
  ELSE IF Len(PostName(body)) > 200 THEN 400
  ELSE IF ~isAbsoluteUrl(PostCallback(body)) THEN 400
  ELSE IF body.hasAlg /\ body.jwt_alg \notin ALGS THEN 400
  ELSE IF body.hasTtl /\ body.token_ttl_seconds <= 0 THEN 400
  ELSE IF \E c \in companies : c.name = PostName(body) THEN 409
  ELSE 201

\* The id the sequence of companies.id gives the new row.
NextCompanyId == 1 + Cardinality(companies)

PostRow(body) ==
  [id |-> NextCompanyId,
   name |-> PostName(body),
   callback_url |-> IF PostCallback(body) # NULL /\ PostCallback(body) # <<>>
                      THEN PostCallback(body) ELSE NULL,
   jwt_alg |-> IF body.hasAlg THEN body.jwt_alg ELSE JwtAlgDefault,
   token_ttl_seconds |-> IF body.hasTtl THEN body.token_ttl_seconds ELSE TtlDefault]

PostCompany(body) ==
  /\ AdminReady
  /\ companies' = IF PostStatus(body) = 201 THEN companies \cup {PostRow(body)}
                  ELSE companies
  /\ answered' = CompanyResp("POST company", PostStatus(body))
  /\ adminOps' = IF PostStatus(body) = 201 THEN adminOps + 1 ELSE adminOps
  /\ UNCHANGED <<jwts, users, verification_keys, tokens, tokens_id_seq, now,
                 randomDraws, reqs>>

Named(n) == [NoFields EXCEPT !.hasName = TRUE, !.name = n]

PostBodies ==
  { NoFields,
    Named(<<"C">>),
    Named(<<" ", "B", " ">>),
    [Named(<<"C">>) EXCEPT !.hasCallback = TRUE, !.callback_url = <<"ftp:", "//", "h">>],
    [Named(<<"C">>) EXCEPT !.hasCallback = TRUE, !.callback_url = <<"/cb">>],
    [Named(<<"C">>) EXCEPT !.hasTtl = TRUE, !.token_ttl_seconds = 0],
    [Named(<<"C">>) EXCEPT !.hasTtl = TRUE, !.token_ttl_seconds = MaxTtl] }

AdminPatchBodies ==
  PatchBodies \cup
  { Named(<<"B">>),
    Named(<<"C">>),
    [NoFields EXCEPT !.hasCallback = TRUE, !.callback_url = <<" ", "http:", "//", "h", " ">>],
    [NoFields EXCEPT !.hasTtl = TRUE, !.token_ttl_seconds = 0],
    [NoFields EXCEPT !.hasTtl = TRUE, !.token_ttl_seconds = 0 - 1] }

\* PUT /api/users/:id/key with a JSON body: the handler's request
\* parameter is _req, which it never reads.
KeyBodies == {NULL, <<"k">>}

\* The upsert names a user that has no row: where verification_keys.user_id
\* is a foreign key the store rejects it and the rejection, which the handler
\* does not catch, is answered 500.  The generated key is dropped.
PutUserKeyRejected(userId) ==
  /\ AdminReady
  /\ ~\E u \in users : u.id = userId
  /\ answered' = AdminResp("PUT key", 500)
  /\ UNCHANGED <<companies, jwts, users, verification_keys, tokens, tokens_id_seq,
                 now, randomDraws, adminOps, reqs>>

PutUserKeyBody(userId, key_value) ==
  \/ PutUserKey(userId)
  \/ PutUserKeyRejected(userId)

\* DELETE /api/tokens/:id
TokenIds == 1..MaxEvents

DeleteToken(tokenId) ==
  /\ AdminReady
  /\ tokens' = {row \in tokens : row.id # tokenId}
  /\ answered' = AdminResp("DELETE token", IF tokens' = tokens THEN 404 ELSE 200)
  /\ adminOps' = IF tokens' = tokens THEN adminOps ELSE adminOps + 1
  /\ UNCHANGED <<companies, jwts, users, verification_keys, tokens_id_seq, now,
                 randomDraws, reqs>>

\* What the foreign keys of verification_keys.user_id and tokens.user_id do
\* when the user row goes: delete the rows, refuse the DELETE, or (no
\* foreign key) nothing.
FkActions == {"cascade", "restrict", "none"}

\* DELETE /api/users/:id
DeleteUser(userId, fk) ==
  LET found == \E u \in users : u.id = userId
      referenced == \/ \E k \in verification_keys : k.user_id = userId
                    \/ \E row \in tokens : row.user_id = userId
      status == IF ~found THEN 404
                ELSE IF fk = "restrict" /\ referenced THEN 500
                ELSE 200
  IN  /\ AdminReady
      /\ users' = IF status = 200 THEN {u \in users : u.id # userId} ELSE users
      /\ verification_keys' =
           IF status = 200 /\ fk = "cascade"
             THEN {k \in verification_keys : k.user_id # userId}
             ELSE verification_keys
      /\ tokens' = IF status = 200 /\ fk = "cascade"
                     THEN {row \in tokens : row.user_id # userId}
                     ELSE tokens
      /\ answered' = AdminResp("DELETE user", status)
      /\ adminOps' = IF status = 200 THEN adminOps + 1 ELSE adminOps
      /\ UNCHANGED <<companies, jwts, tokens_id_seq, now, randomDraws, reqs>>

\* The tokens callers were handed.
HeldTokens == {reqs[i].resp.token : i \in DOMAIN reqs}

\* The entry requests of these runs: company 1 by id or a company by name,
\* user 1 by phone or users 1 and 2 by their name pair, the custom key or
\* a string generated so far (the keys stored now or earlier are among
\* them), and no token or a token a caller holds.
AdminParams ==
  { [company_id |-> p[1], company_name |-> p[2], phone |-> w[1],
     first_name |-> w[2], last_name |-> w[3], key |-> k, token |-> t]
      : p \in {<<<<"1">>, NULL>>, <<NULL, <<"B">>>>, <<NULL, <<"C">>>>},
        w \in {<<<<"7">>, NULL, NULL>>, <<NULL, <<"J">>, <<"D">>>>},
        k \in {<<"k">>} \cup {RandomString(d) : d \in 0..(randomDraws - 1)},
        t \in {NULL} \cup HeldTokens }

\* One entry request handled from its first line to its response; a caller
\* handed a new token keeps it.
Request(raw) ==
  /\ IsIdle
  /\ \E r \in GET_run(raw) :
       IF r.pc = "persist"
         THEN /\ Events < MaxEvents
              /\ persistIssuedToken(TheUser(r).id, r.token)
              /\ randomDraws' = randomDraws + 1
              /\ answered' = [op |-> "entry", r |-> GET_persisted(r)]
              /\ reqs' = Append(reqs, GET_persisted(r))
         ELSE /\ answered' = [op |-> "entry", r |-> r]
              /\ UNCHANGED <<tokens, tokens_id_seq, randomDraws, reqs>>
  /\ UNCHANGED <<companies, jwts, users, verification_keys, now, adminOps>>

NextAdmin ==
  \/ IsIdle /\ \E raw \in AdminParams : Request(raw)
  \/ Respond
  \/ Tick
  \/ \E body \in PostBodies : PostCompany(body)
  \/ \E c \in CompanyIds, body \in AdminPatchBodies : PatchCompany(c, body)
  \/ \E c \in CompanyIds, j \in PutJwtBodies : PutCompanyJwt(c, j)
  \/ \E c \in CompanyIds : DeleteCompanyJwt(c)
  \/ \E u \in UserIds, body \in KeyBodies : PutUserKeyBody(u, body)
  \/ \E u \in UserIds : DeleteUserKey(u)
  \/ \E id \in TokenIds : DeleteToken(id)
  \/ \E u \in UserIds, fk \in FkActions : DeleteUser(u, fk)

SpecAdmin == Init /\ [][NextAdmin]_vars

\* The ttl issueJwt adds to iat for company row c.
EffectiveTtl(c) == IF c.token_ttl_seconds = 0 THEN DefaultTtl ELSE c.token_ttl_seconds

\* C21: every company that the create and update routes leave in the table
\* has a positive token_ttl_seconds; a token minted by entry has iat the
\* clock second and exp = iat + token_ttl_seconds of the company row read,
\* so exp > iat, as has every ledger token; and for a row with ttl zero
\* issueJwt adds 1,209,600.
C21_ExpiryFromTtl ==
  /\ \A c \in companies : c.token_ttl_seconds > 0
  /\ Minted =>
       \A c \in Req.company :
         /\ TokenIat(Req.resp.token) = now
         /\ TokenExp(Req.resp.token) = TokenIat(Req.resp.token) + EffectiveTtl(c)
         /\ TokenExp(Req.resp.token) > TokenIat(Req.resp.token)
  /\ \A row \in tokens : TokenExp(row.token) > TokenIat(row.token)
  /\ \A c \in companies, u \in users :
       TokenExp(issueJwt(u, [c EXCEPT !.token_ttl_seconds = 0], RandomString(1), now, 0))
         = now + DefaultTtl

\* A token minted after PATCH set the ttl of the company.
C21_Witness ==
  /\ Minted
  /\ adminOps > 0
  /\ \E c \in Req.company :
       /\ c.token_ttl_seconds = MaxTtl
       /\ c \notin InitCompanies
       /\ TokenExp(Req.resp.token) = now + MaxTtl

\* The signing-secret rows of company id.
SecretRows(id) == {j \in jwts : j.company_id = id}

\* C22: under every sequence of PUT and DELETE on company secrets a company
\* has at most one jwts row; a PUT answered 200 leaves the company with
\* exactly one row, holding the value written, and with as many rows in the
\* table as before when the company had one; and the secret an entry
\* request reads is the value of that one row.
C22_OneSecretPerCompany ==
  /\ [](\A c \in companies : Cardinality(SecretRows(c.id)) <= 1)
  /\ [][\A id \in CompanyIds, body \in PutJwtBodies :
          (PutCompanyJwt(id, body) /\ answered'.status = 200) =>
             /\ SecretRows(id)' = {[company_id |-> id, jwt |-> PutJwtValue(body),
                                    is_active |-> IsActiveDefault]}
             /\ SecretRows(id) # {} => Cardinality(jwts') = Cardinality(jwts)
             /\ getActiveSecret(id)' = PutJwtValue(body)]_vars
  /\ [][EntryStep =>
          \A c \in answered'.r.company :
            Truthy(c.callback_url) =>
              /\ answered'.r.secret = getActiveSecret(c.id)
              /\ \A j \in SecretRows(c.id) : answered'.r.secret = j.jwt]_vars

\* An entry request reads the secret a PUT wrote over the first secret of
\* the company.
C22_Witness ==
  /\ IsEntry
  /\ adminOps > 0
  /\ \E c \in Req.company :
       /\ SecretRows(c.id) = {[company_id |-> c.id, jwt |-> <<"c">>, is_active |-> TRUE]}
       /\ Req.secret = <<"c">>
  /\ Cardinality(jwts) = Cardinality(InitJwts)

\* The verification-key rows of user id.
KeyRowsOf(id) == {k \in verification_keys : k.user_id = id}

\* The request ran to the key comparison for user id.
JudgedFor(r, id) == r.pc \in {"done", "persist"} /\ \E u \in r.user : u.id = id

\* The keys generated so far: the draws of randomBytes up to now.
GeneratedKeys == {RandomString(d) : d \in 0..(randomDraws - 1)}

\* C23: under every sequence of PUT and DELETE on user keys a user has at
\* most one verification_keys row; a PUT that is answered 200 leaves the
\* user with exactly one row, holding the key generated, which is not the
\* key the user had, and adds no row when the user had one; and an entry request that comes to
\* the key of a user and supplies a key generated earlier that is not the
\* key the user has now, as the key the user had before a rotation is, is
\* answered 401.
C23_OneKeyPerUser ==
  /\ [](\A k \in verification_keys : Cardinality(KeyRowsOf(k.user_id)) = 1)
  /\ [][\A id \in UserIds, body \in KeyBodies :
          PutUserKeyBody(id, body) /\ answered'.status = 200 =>
             /\ KeyRowsOf(id)' = {[user_id |-> id, key_value |-> RandomString(randomDraws)]}
             /\ \A k \in KeyRowsOf(id) :
                  /\ k.key_value # RandomString(randomDraws)
                  /\ Cardinality(verification_keys') = Cardinality(verification_keys)]_vars
  /\ [](IsEntry =>
          \A id \in UserIds :
            (/\ JudgedFor(Req, id)
             /\ Req.raw.key \in GeneratedKeys
             /\ \E k \in KeyRowsOf(id) : k.key_value # Req.raw.key)
              => InvalidKeyResponse(Req))

\* After a rotation of the key of user 1, a request naming user 1 with the
\* key the user had is answered 401.
C23_Witness ==
  /\ IsEntry
  /\ InvalidKeyResponse(Req)
  /\ Req.raw.key = RandomString(0)
  /\ JudgedFor(Req, 1)
  /\ \E k \in KeyRowsOf(1) : Truthy(k.key_value) /\ k.key_value # RandomString(0)
  /\ Cardinality(verification_keys) = Cardinality(InitKeys)

\* An absolute http(s) URL: it parses, its scheme is http: or https:, and it
\* names a host.
HttpUrl(u) ==
  UrlParses(u) /\ UrlProtocol(u) \in {"http:", "https:"} /\ UrlHost(u) # ""

\* A request body whose callback_url is neither null nor an absolute http(s) URL.
BadCallback(body) ==
  /\ body.hasCallback
  /\ body.callback_url \notin {NULL, <<>>}
  /\ ~HttpUrl(Trim(body.callback_url))

\* C24: after any sequence of POST /api/companies and PATCH /api/companies/:id
\* every company's callback_url is null or an absolute http(s) URL, and a
\* request whose callback_url is neither is rejected with 400 and leaves the
\* companies table unchanged.
C24_CallbackIsHttpUrl ==
  /\ [](\A c \in companies : c.callback_url = NULL \/ HttpUrl(Trim(c.callback_url)))
  /\ [][\A body \in PostBodies :
          PostCompany(body) /\ BadCallback(body)
            => answered'.status = 400 /\ companies' = companies]_vars
  /\ [][\A id \in CompanyIds : \A body \in AdminPatchBodies :
          PatchCompany(id, body) /\ BadCallback(body)
            => answered'.status = 400 /\ companies' = companies]_vars

\* The name a body asks for is held by a company other than the one written.
NameHeldByAnother(body, id) ==
  /\ body.hasName
  /\ body.name # NULL
  /\ \E c \in companies : c.id # id /\ c.name = Trim(body.name)

NameConflict(resp) ==
  resp.status = 409 /\ resp.error = "Company name already exists"

\* C25: company names stay unique under every sequence of POST /api/companies
\* and PATCH /api/companies/:id; a POST or PATCH that passes validation and
\* asks for a name another company holds is answered 409 "Company name already
\* exists" and changes no row; an entry request by company_name therefore
\* matches at most one company.
C25_NamesUnique ==
  /\ [](\A c1 \in companies : \A c2 \in companies : c1.name = c2.name => c1 = c2)
  /\ [][\A body \in PostBodies :
          PostCompany(body) /\ NameHeldByAnother(body, 0)
            => /\ companies' = companies
               /\ answered'.status # 201
               /\ answered'.status # 400 => NameConflict(answered')]_vars
  /\ [][\A id \in CompanyIds : \A body \in AdminPatchBodies :
          PatchCompany(id, body) /\ NameHeldByAnother(body, id)
            => /\ companies' = companies
               /\ answered'.status # 200
               /\ answered'.status # 400 => NameConflict(answered')]_vars
  /\ [](IsEntry /\ ~Truthy(IdParam(Req.raw)) /\ Truthy(NameParam(Req.raw))
          => /\ Cardinality(CompaniesNamed(Req.raw)) <= 1
             /\ Req.company \subseteq CompaniesNamed(Req.raw))

\* A POST asking for the name a PATCH had given to company 1 was refused
\* with the conflict response, and the table still has its two rows.
C25_Witness ==
  /\ answered.op = "POST company"
  /\ NameConflict(answered)
  /\ \E c \in companies : c.id = 1 /\ c.name = <<"C">>
  /\ Cardinality(companies) = 2

\* C26: a PUT /api/users/:id/key whose JSON body carries a non-empty key_value
\* sets the user's stored key to exactly that value (so that a later entry
\* request supplying that value is compared with it and comes through).
C26_CustomKeyStored ==
  [][\A id \in UserIds : \A key_value \in KeyBodies \ {NULL} :
       PutUserKeyBody(id, key_value) /\ answered'.status = 200
         => KeyRowsOf(id)' = {[user_id |-> id, key_value |-> key_value]}]_vars

\* The request that carries token t and the identifiers and key of raw.
WithToken(raw, t) == [raw EXCEPT !.token = t]

\* What the handler does with token t once it has resolved company c: the
\* response when it ends there, and "continues" when it goes on to look for
\* the user.
ShortcutOutcome(raw, t, c) ==
  LET r == GET_secret([GET_begin(WithToken(raw, t)) EXCEPT !.company = {c}, !.pc = "secret"],
                      getActiveSecret(c.id), now)
  IN  IF r.pc = "done" THEN [via |-> r.via, resp |-> r.resp]
      ELSE [via |-> "none", resp |-> NoResp]

\* The company, identifier and key parameters a token is presented with.
ShortcutProbes ==
  { [company_id |-> NULL, company_name |-> NULL, phone |-> w[1],
     first_name |-> w[2], last_name |-> w[3], key |-> k, token |-> NULL]
      : w \in {<<NULL, NULL, NULL>>, <<<<"7">>, NULL, NULL>>},
        k \in {<<"k">>} }

\* C27: the outcome of the token shortcut depends only on the token, the
\* company's active secret and its algorithm (and the clock the token's
\* expiry is read against): in every store that any sequence of entry and
\* admin requests reaches, DELETE /api/tokens/:id, DELETE /api/users/:id and
\* key deletions and rotations included, a token presented to a company with
\* a callback_url and a secret is redirected by the shortcut exactly when it
\* verifies under that secret and algorithm, whatever the ledger, the users
\* and the keys hold; and so did every entry step that presented one.
C27_ShortcutIgnoresLedger ==
  /\ [](IsEntry /\ Req.providedToken # NULL /\ Truthy(Req.secret)
          => \A c \in Req.company :
               ShortcutResponse(Req, c, Req.providedToken)
                 <=> jwt_verify(Req.providedToken, Req.secret, {c.jwt_alg}, now))
  /\ [](\A raw \in ShortcutProbes : \A t \in HeldTokens : \A c \in companies :
          Truthy(c.callback_url) /\ Truthy(getActiveSecret(c.id)) =>
            /\ ShortcutOutcome(raw, t, c).via = "token"
                 <=> jwt_verify(t, getActiveSecret(c.id), {c.jwt_alg}, now)
            /\ ShortcutOutcome(raw, t, c).via = "token"
                 => ShortcutOutcome(raw, t, c).resp = redirect(buildRedirect(c.callback_url, t)))

\* A token was redirected by the shortcut while unexpired although its ledger
\* row, the user it was minted for and that user's key are all gone.
C27_Witness ==
  /\ IsEntry
  /\ \E c \in Req.company : ShortcutResponse(Req, c, Req.raw.token)
  /\ Unexpired(Req.raw.token)
  /\ Req.raw.token \notin LedgerTokens
  /\ ~\E u \in users : ToString(u.id) = TokenSub(Req.raw.token)
  /\ KeyRowsOf(1) = {}

\* ------------------------------------------------- key changes in flight
\* Entry requests whose awaits interleave with PUT and DELETE
\* /api/users/:id/key: every query of the handler is a round trip of its own
\* and no transaction spans them, so a key request can be served between any
\* two of them.
RaceParams ==
  { [company_id |-> <<"1">>, company_name |-> NULL, phone |-> <<"7">>,
     first_name |-> NULL, last_name |-> NULL, key |-> k, token |-> NULL]
      : k \in {RandomString(0), <<"k">>} }

\* The user the requests of RaceParams name by phone.
RaceUsers == {1}

NextRace ==
  \/ \E raw \in RaceParams : Arrive(raw)
  \/ \E i \in DOMAIN reqs : StepCompany(i)
  \/ \E i \in DOMAIN reqs : StepSecret(i)
  \/ \E i \in DOMAIN reqs : StepUser(i)
  \/ \E i \in DOMAIN reqs : StepKey(i)
  \/ \E i \in DOMAIN reqs : StepPersist(i)
  \/ \E u \in RaceUsers : PutUserKey(u)
  \/ \E u \in RaceUsers : DeleteUserKey(u)
  \/ Respond

\* The insert that request i awaits returns.
InsertReturns(i) == i \in DOMAIN reqs /\ StepPersist(i)

\* The event loop resumes a handler whose awaited insert has returned.
SpecRace ==
  /\ Init
  /\ [][NextRace]_vars
  /\ \A i \in 1..NumRequests : WF_vars(InsertReturns(i))

TokenJti(t) == ParseNumber(t[9])

\* The key row request r read is the row of the user it resolved, and holds
\* the key r supplied.
KeyReadMatched(r) ==
  \E k \in r.keyRow : \E u \in r.user :
    k.user_id = u.id /\ k.key_value = r.providedKey

\* The key now stored for the user of r is not the key r supplied.
KeyChangedSince(r) == ~StoredKeyIs(TheUser(r), r.providedKey)

RedirectedWithRow(r) ==
  /\ r.pc = "done"
  /\ r.via = "key"
  /\ r.resp.kind = "redirect"
  /\ r.resp.token = r.token
  /\ \E row \in tokens : row.token = r.token /\ row.user_id = TheUser(r).id

\* C28: the handler's reads and its ledger insert are separate round trips.
\* Every ledger row belongs to a request whose supplied key equalled the
\* stored key at the moment the request read it: the key step mints exactly
\* when the key stored at that moment is the supplied one.  Nothing stronger
\* holds: the insert step adds the row and redirects whatever the key is by
\* then, and a request whose user's key was rotated or deleted between its
\* key read and its insert still persists and redirects.
C28_KeyReadThenInsert ==
  /\ [](\A row \in tokens : \E i \in DOMAIN reqs :
          /\ reqs[i].token = row.token
          /\ reqs[i].pc = "done"
          /\ TheUser(reqs[i]).id = row.user_id
          /\ KeyReadMatched(reqs[i]))
  /\ [][\A i \in DOMAIN reqs :
          /\ StepKey(i) =>
               /\ reqs'[i].keyRow = getUserKey(TheUser(reqs[i]).id)
               /\ reqs'[i].pc = "persist"
                    <=> StoredKeyIs(TheUser(reqs[i]), reqs[i].providedKey)
          /\ StepPersist(i) =>
               /\ tokens' = tokens \cup {[id |-> tokens_id_seq,
                                          user_id |-> TheUser(reqs[i]).id,
                                          token |-> reqs[i].token]}
               /\ reqs'[i].resp = redirect(buildRedirect(TheCompany(reqs[i]).callback_url,
                                                         reqs[i].token))]_vars
  /\ \A i \in 1..NumRequests :
       (i \in DOMAIN reqs /\ reqs[i].pc = "persist" /\ KeyChangedSince(reqs[i]))
         ~> (i \in DOMAIN reqs /\ RedirectedWithRow(reqs[i]))

\* A request was redirected and has its ledger row, while the key of its user
\* is one that was generated after the request's token was minted.
C28_Witness ==
  \E i \in DOMAIN reqs :
    /\ RedirectedWithRow(reqs[i])
    /\ KeyChangedSince(reqs[i])
    /\ \E k \in KeyRowsOf(TheUser(reqs[i]).id) :
         \E d \in (TokenJti(reqs[i].token) + 1)..randomDraws :
           k.key_value = RandomString(d)

\* The response a run of the handler ends with.
Outcome(r) == IF r.pc = "persist" THEN GET_persisted(r).resp ELSE r.resp

\* C29: for a fixed store state the result of an entry request is a function
\* of its query parameters: every run of the handler on the same parameters
\* resolves the same user and ends with the same outcome (a redirect, or the
\* same error status), also when several users of the company share the
\* supplied (first_name, last_name) pair.
C29_ResultIsFunctionOfParameters ==
  \A raw \in Params : \A r1 \in GET_run(raw) : \A r2 \in GET_run(raw) :
    /\ r1.user = r2.user
    /\ Outcome(r1).kind = Outcome(r2).kind
    /\ Outcome(r1).status = Outcome(r2).status

\* ------------------------------------------------- padded parameters
\* Entry requests whose parameters come with surrounding whitespace, are
\* whitespace only, or are absent.
Padded(s) == <<" ">> \o s \o <<" ">>

TrimParams ==
  { [company_id |-> c[1], company_name |-> c[2], phone |-> w[1],
     first_name |-> w[2], last_name |-> w[3], key |-> k, token |-> t]
      : c \in {<<<<"1">>, NULL>>, <<Padded(<<"1">>), NULL>>, <<<<" ">>, Padded(<<"A">>)>>},
        w \in {<<<<"7">>, NULL, NULL>>, <<Padded(<<"7">>), NULL, NULL>>,
               <<<<" ">>, <<" ", "J">>, <<"D", " ">>>>, <<<<" ">>, <<" ">>, <<"D">>>>,
               <<NULL, NULL, NULL>>},
        k \in {RandomString(0), Padded(RandomString(0)), <<"k", " ">>, <<" ">>, NULL},
        t \in {NULL, <<" ">>} \cup LedgerTokens \cup {Padded(x) : x \in LedgerTokens} }

NextTrim ==
  \/ \E raw \in TrimParams : Entry(raw)
  \/ Respond
  \/ Tick

SpecTrim == Init /\ [][NextTrim]_vars

\* The request with every parameter trimmed.
TrimmedRequest(raw) ==
  [f \in DOMAIN raw |-> IF raw[f] = NULL THEN NULL ELSE Trim(raw[f])]

\* The request with every parameter trimmed and the empty ones left out.
PresentOnly(raw) ==
  [f \in DOMAIN raw |-> IF Truthy(Trim(raw[f])) THEN Trim(raw[f]) ELSE NULL]

WhitespaceOnly(s) == s # NULL /\ s # <<>> /\ Trim(s) = <<>>

\* The step answers as some run of the handler on request raw2 does, with
\* the same effect on the ledger.
AnswersAs(raw2) ==
  \E r \in GET_run(raw2) :
    /\ [answered'.r EXCEPT !.raw = raw2] = (IF r.pc = "persist" THEN GET_persisted(r) ELSE r)
    /\ tokens' = IF r.pc = "persist"
                   THEN tokens \cup {[id |-> tokens_id_seq, user_id |-> TheUser(r).id,
                                      token |-> r.token]}
                   ELSE tokens

\* The request got as far as the checks of the user's identifier and key.
CameToPresenceChecks(r) == Truthy(r.secret) /\ r.via # "token"

\* C30: every entry query parameter is trimmed before use and an empty result
\* counts as absent: an entry step answers, and changes the ledger, as the
\* same request with every parameter trimmed does, and as that request with
\* its empty parameters left out does; a whitespace-only token skips the
\* shortcut; a whitespace-only key or identifier counts as missing (400); and
\* a supplied key that equals the stored key only after trimming is accepted.
C30_ParametersTrimmed ==
  [][EntryStep =>
       LET r == answered'.r
           raw == answered'.r.raw
       IN  /\ AnswersAs(TrimmedRequest(raw))
           /\ AnswersAs(PresentOnly(raw))
           /\ WhitespaceOnly(raw.token) => r.providedToken = NULL /\ r.via # "token"
           /\ (/\ CameToPresenceChecks(r)
               /\ ~Truthy(Trim(raw.phone))
               /\ ~(Truthy(Trim(raw.first_name)) /\ Truthy(Trim(raw.last_name))))
                => r.resp = jsonError("Missing user identifier (phone or first_name+last_name)", 400)
           /\ (/\ CameToPresenceChecks(r)
               /\ Truthy(Trim(raw.phone))
               /\ WhitespaceOnly(raw.key))
                => r.resp = jsonError("Missing personal key", 400)
           /\ (/\ raw.key # Trim(raw.key)
               /\ \E u \in r.user : StoredKeyIs(u, Trim(raw.key)))
                => /\ r.via = "key"
                   /\ r.resp.kind = "redirect"
                   /\ tokens' # tokens
    ]_vars

\* A request whose company, phone and key all came padded, and whose key
\* equals the stored key only after trimming, was redirected with a new token.
C30_Witness ==
  /\ IsEntry
  /\ Req.raw.company_id = Padded(<<"1">>)
  /\ Req.raw.phone = Padded(<<"7">>)
  /\ Req.raw.key = Padded(RandomString(0))
  /\ Req.raw.token = <<" ">>
  /\ Req.via = "key"
  /\ Req.resp.kind = "redirect"
  /\ Req.resp.token \in LedgerTokens

====
